---- MODULE Spec2Model ----
(***************************************************************************)
(* A model of the rlytype adaptive pattern scheduler: the per-pattern      *)
(* statistics (packages/core/src/stats.ts), the finger table               *)
(* (packages/core/src/patterns.ts) and the keystroke attribution state     *)
(* machine TypingEngine.handleKey (the bandit-era engine, unnamed/part_006).*)
(* The mastery test and score, the stages (unnamed/part_005), the          *)
(* sequential selection (packages/core/src/bandit.ts), the weighted-random *)
(* selection (packages/engine/src/index.ts) and the word generator         *)
(* (packages/generator/src) are functions of a snapshot of the store; they *)
(* are applied to snapshots drawn from a set of records (SpecQuery,        *)
(* SpecBatch); so are the priority score (SpecRank) and the stage gate     *)
(* (SpecUnlock).  SpecSession is the engine with its save timer, its stage *)
(* controls and the saves it hands to storage                              *)
(* (packages/storage/src/db.ts), for a short run of keystrokes.            *)
(* SpecMastered applies the mastery test to records built by the engine's  *)
(* own updates, SpecCursor follows the cursor through the controls,        *)
(* SpecSave (FairSave with the save timer's fairness) is the session from  *)
(* a small stored set, SpecStore is the session with the mode control at   *)
(* an even pace, and SpecTarget is the target across a reload.             *)
(*                                                                         *)
(* Numbers.  The JavaScript numbers ewmaLatency, ewmaVariance and trend    *)
(* are modelled as exact rationals <<num, den>> in lowest terms with       *)
(* den > 0; timestamps and counters are integers.                          *)
(*                                                                         *)
(* Strings.  A character is a one-character string, a word is a tuple of   *)
(* characters, and a pattern id is the tuple of the pieces the code        *)
(* concatenates: "th" is <<"t","h">>, `same_finger:${a}${b}` is            *)
(* <<"same_finger:", a, b>>.                                               *)
(*                                                                         *)
(* Words.  state.words is produced by the word generator, which draws      *)
(* words at random from the corpus.  The model keeps the length of         *)
(* state.words (wordsLength) and the word under the cursor (targetWord);   *)
(* the word at an index is drawn from the corpus when the cursor reaches   *)
(* it.                                                                     *)
(*                                                                         *)
(* Time.  now is the value Date.now() returns; every handler call happens  *)
(* dt milliseconds after the previous one.                                 *)
(***************************************************************************)
EXTENDS Integers, Sequences, FiniteSets, TLC

VARIABLES
  isLoaded,              \* state.isLoaded
  wordsLength,           \* state.words.length
  targetWord,            \* state.words[state.activeWordIndex].word
  activeWordIndex,       \* state.activeWordIndex
  activeCharIndex,       \* state.activeCharIndex
  typedSoFar,            \* state.typedSoFar
  isError,               \* state.isError
  wpm,                   \* state.stats.wpm
  accuracy,              \* state.stats.accuracy
  patternStats,          \* this.patternStats : Map<PatternId, PatternStat>
  dirtyStats,            \* this.dirtyStats : Set<PatternId>
  lastKeyTime,           \* this.lastKeyTime
  latencyInvalidated,    \* this.latencyInvalidated
  totalKeystrokes,       \* this.totalKeystrokes
  correctKeystrokes,     \* this.correctKeystrokes
  batchStartTime,        \* this.batchStartTime
  batchCorrectChars,     \* this.batchCorrectChars
  batchTotalKeystrokes,  \* this.batchTotalKeystrokes
  isBatchStarted,        \* this.isBatchStarted
  now,                   \* the clock: the last value Date.now() returned
  lastCall,              \* log of the last handler call: its input and the
                         \* cursor, word, flag and latency it found
  pstat,                 \* a PatternStat record under a sequence of observations
  pstatIn,               \* the record passed to the last updatePatternStat call
  pstatObs,              \* the observation passed to that call, and how many
                         \* observations there have been
  allStats,              \* a snapshot of the store: Array.from(patternStats.values())
  targetLatency,         \* config.targetLatency
  lastQuery,             \* log of the last call of a function of the snapshot:
                         \* its name, its arguments and what it returned
  steady,                \* how many keystrokes of the session's steady opening
                         \* have been typed
  progression,           \* state.progression: currentStage, learningMode,
                         \* mastery, isUnlocked
  saveInterval,          \* this.saveInterval: whether the auto-save timer is set
  saves,                 \* the batches handed to storage.savePatternStats whose
                         \* promise has not settled yet, oldest first
  handed                 \* for each id, the record storage was last given: the
                         \* one loadAllPatternStats yielded or the one of the
                         \* last batch handed to savePatternStats with that id

engineVars == <<isLoaded, wordsLength, targetWord, activeWordIndex, activeCharIndex,
                typedSoFar, isError, wpm, accuracy, patternStats, dirtyStats,
                lastKeyTime, latencyInvalidated, totalKeystrokes, correctKeystrokes,
                batchStartTime, batchCorrectChars, batchTotalKeystrokes, isBatchStarted>>

statVars == <<pstat, pstatIn, pstatObs, allStats, targetLatency, lastQuery>>

sessionVars == <<progression, saveInterval, saves, handed>>

vars == <<engineVars, now, lastCall, statVars, steady, sessionVars>>

----------------------------------------------------------------------------
(* Bounds of the model *)

\* arbitrary keystrokes handled in one behaviour of Spec
MaxKeys == 5

\* a session may open with this many one-letter words typed without a slip at
\* a steady pace, which brings the cursor to the last word of the first batch
WarmWords == 9

\* milliseconds between two keystrokes of that opening
SteadyTick == 150

\* observations applied to one record in one behaviour of SpecStat
MaxObs == 2

\* records in the store snapshot of SpecQuery
MaxStats == 3

\* values of Math.random() in selectTargetPattern: k / RandomSteps
RandomSteps == 8

\* words asked of generateBatch in one call of SpecBatch
MaxBatch == 3

\* words at the head of the word list that the indexer keeps as flow words
\* (100 in the source, for a list of several thousand words)
FlowCount == 2

\* keystrokes handled in one behaviour of SpecSession
MaxSessionKeys == 3

\* saves in flight at once in SpecSession
MaxPending == 2

\* learned unigram records, and learned bigram records, in a store of
\* SpecUnlock
MaxUnigrams == 22

MaxBigrams == 17

\* the lowest and the highest target the slider is moved to in SpecTarget
MinTargetWpm == 10

MaxTargetWpm == 150

\* accepted keystrokes, and mismatches, behind a record of SpecMastered
MaxSuccesses == 60

MaxFailures == 2

\* Date.now() when the engine is constructed
StartTime == 5000

\* milliseconds between two handler calls
Ticks == {150, 180, 2000}

\* the word list (words.json)
Corpus == { <<"a">>, <<"d", "e", "e", "d">>, <<"h", "e", "'", "d">> }

\* the keys the key listener passes on (e.key of length 1)
Keys == {" ", "a", "h", "e", "d", "'"}

----------------------------------------------------------------------------
(* Exact rational arithmetic *)

Abs(x) == IF x < 0 THEN -x ELSE x

RECURSIVE GCD(_, _)
GCD(a, b) == IF b = 0 THEN a ELSE GCD(b, a % b)

\* the rational n/d (d # 0) in lowest terms with a positive denominator
Rat(n, d) ==
  LET g == GCD(Abs(n), Abs(d))
      s == IF d < 0 THEN -1 ELSE 1
  IN  <<(s * n) \div g, (s * d) \div g>>

RInt(n) == <<n, 1>>

RAdd(p, q) ==
  LET g == GCD(p[2], q[2])
  IN  Rat(p[1] * (q[2] \div g) + q[1] * (p[2] \div g), (p[2] \div g) * q[2])

RNeg(p) == <<-p[1], p[2]>>

RSub(p, q) == RAdd(p, RNeg(q))

RMul(p, q) ==
  LET g1 == GCD(Abs(p[1]), q[2])
      g2 == GCD(Abs(q[1]), p[2])
  IN  Rat((p[1] \div g1) * (q[1] \div g2), (p[2] \div g2) * (q[2] \div g1))

RLt(p, q) == RSub(p, q)[1] < 0

RLe(p, q) == RSub(p, q)[1] <= 0

\* p / q for q # 0
RDiv(p, q) == RMul(p, Rat(q[2], q[1]))

\* Math.min, Math.max
RMin(p, q) == IF RLe(p, q) THEN p ELSE q

RMax(p, q) == IF RLe(p, q) THEN q ELSE p

\* Math.round: the nearest integer, a half rounded up
RRound(p) == (2 * p[1] + p[2]) \div (2 * p[2])

\* the largest k in lo..hi with k * k <= n (lo * lo <= n)
RECURSIVE rootBelow(_, _, _)
rootBelow(n, lo, hi) ==
  IF lo = hi THEN lo
  ELSE LET mid == (lo + hi + 1) \div 2
       IN  IF mid * mid <= n THEN rootBelow(n, mid, hi) ELSE rootBelow(n, lo, mid - 1)

\* Math.sqrt of a number in 0..200000, cut to two decimals; on the squares of
\* the multiples of 1/100 it is exact
RSqrt(p) == Rat(rootBelow((p[1] * 10000) \div p[2], 0, 46000), 100)

----------------------------------------------------------------------------
(* packages/core/src/patterns.ts *)

\* FINGER_MAP: 0=L-Pinky, 1=L-Ring, 2=L-Mid, 3=L-Index, 4=R-Index, 5=R-Mid,
\* 6=R-Ring, 7=R-Pinky
FINGER_MAP ==
  [c \in {"q", "a", "z", "w", "s", "x", "e", "d", "c", "r", "f", "v", "t", "g", "b",
          "y", "h", "n", "u", "j", "m", "i", "k", "o", "l", "p"} |->
     CASE c \in {"q", "a", "z"} -> 0
       [] c \in {"w", "s", "x"} -> 1
       [] c \in {"e", "d", "c"} -> 2
       [] c \in {"r", "f", "v", "t", "g", "b"} -> 3
       [] c \in {"y", "h", "n", "u", "j", "m"} -> 4
       [] c \in {"i", "k"} -> 5
       [] c \in {"o", "l"} -> 6
       [] c \in {"p"} -> 7]

\* the value JavaScript calls undefined
Undefined == -1

\* getFinger(char): the characters of the model are lower case already, so
\* char.toLowerCase() is char
getFinger(char) == IF char \in DOMAIN FINGER_MAP THEN FINGER_MAP[char] ELSE Undefined

----------------------------------------------------------------------------
(* packages/core/src/stats.ts *)

LOW_VAR_THRESHOLD == 400

\* isPatternMastered with a slip: a success rate above 0.8 is enough
isPatternMastered_lenient(p, target) ==
  LET totalEvidence == p.errorAlpha + p.errorBeta
  IN  /\ totalEvidence > 10
      /\ RLt(Rat(80, 100), Rat(p.errorAlpha, totalEvidence))
      /\ RLt(p.ewmaVariance, RInt(LOW_VAR_THRESHOLD))
      /\ RLe(p.ewmaLatency, target)

isPatternMastered(p, target) ==
  LET totalEvidence == p.errorAlpha + p.errorBeta
  IN  /\ totalEvidence > 10
      /\ RLt(Rat(98, 100), Rat(p.errorAlpha, totalEvidence))
      /\ RLt(p.ewmaVariance, RInt(LOW_VAR_THRESHOLD))
      /\ RLe(p.ewmaLatency, target)

\* calculateMasteryScore with a slip: the speed factor is not capped at 1
calculateMasteryScore_uncapped(stat, target) ==
  LET totalSamples == stat.errorAlpha + stat.errorBeta
      hitRate == IF totalSamples > 0 THEN Rat(stat.errorAlpha, totalSamples) ELSE RInt(1)
      speedFactor == RDiv(target, RMax(RInt(1), stat.ewmaLatency))
  IN  RRound(RMul(RMul(speedFactor, hitRate), RInt(100)))

calculateMasteryScore(stat, target) ==
  LET totalSamples == stat.errorAlpha + stat.errorBeta
      \* accuracy in the source, a name the engine's state.stats.accuracy has here
      hitRate == IF totalSamples > 0 THEN Rat(stat.errorAlpha, totalSamples) ELSE RInt(1)
      speedFactor == RMin(RInt(1), RDiv(target, RMax(RInt(1), stat.ewmaLatency)))
  IN  RRound(RMul(RMul(speedFactor, hitRate), RInt(100)))

EWMA_ALPHA == <<3, 20>>

createInitialStat(id) ==
  [id |-> id,
   n |-> 0,
   ewmaLatency |-> RInt(300),
   ewmaVariance |-> RInt(1000),
   errorAlpha |-> 1,
   errorBeta |-> 1,
   lastSeen |-> 0,
   trend |-> RInt(0)]

\* updatePatternStat with a slip: the 0 that comes with an error is averaged
\* into the latency like a measurement
updatePatternStat_errorAveraged(stat, latency, isErr, dateNow) ==
  LET newStat == [stat EXCEPT !.n = @ + 1, !.lastSeen = dateNow]
      delta == RSub(RInt(latency), newStat.ewmaLatency)
      averaged == [newStat EXCEPT
                     !.ewmaLatency = RAdd(@, RMul(EWMA_ALPHA, delta)),
                     !.ewmaVariance = RAdd(RMul(RSub(RInt(1), EWMA_ALPHA), @),
                                           RMul(EWMA_ALPHA, RMul(delta, delta))),
                     !.trend = RAdd(RMul(RSub(RInt(1), EWMA_ALPHA), @), RMul(EWMA_ALPHA, delta))]
  IN  IF isErr
      THEN [averaged EXCEPT !.errorBeta = @ + 1]
      ELSE [averaged EXCEPT !.errorAlpha = @ + 1]

\* updatePatternStat with a slip: the step is taken from the observed latency
\* instead of from the average, which carries the average past the latency
updatePatternStat_overshoot(stat, latency, isErr, dateNow) ==
  LET newStat == [stat EXCEPT !.n = @ + 1, !.lastSeen = dateNow]
  IN  IF isErr
      THEN [newStat EXCEPT !.errorBeta = @ + 1]
      ELSE LET delta == RSub(RInt(latency), newStat.ewmaLatency)
           IN  [newStat EXCEPT
                  !.errorAlpha = @ + 1,
                  !.ewmaLatency = RAdd(RInt(latency), RMul(EWMA_ALPHA, delta)),
                  !.ewmaVariance = RAdd(RMul(RSub(RInt(1), EWMA_ALPHA), @),
                                        RMul(EWMA_ALPHA, RMul(delta, delta))),
                  !.trend = RAdd(RMul(RSub(RInt(1), EWMA_ALPHA), @),
                                 RMul(EWMA_ALPHA, delta))]

\* updatePatternStat with a slip: the variance and the trend take their delta
\* against the latency after its update
updatePatternStat_deltaAfter(stat, latency, isErr, dateNow) ==
  LET newStat == [stat EXCEPT !.n = @ + 1, !.lastSeen = dateNow]
  IN  IF isErr
      THEN [newStat EXCEPT !.errorBeta = @ + 1]
      ELSE LET delta == RSub(RInt(latency), newStat.ewmaLatency)
               moved == RAdd(newStat.ewmaLatency, RMul(EWMA_ALPHA, delta))
               late == RSub(RInt(latency), moved)
           IN  [newStat EXCEPT
                  !.errorAlpha = @ + 1,
                  !.ewmaLatency = moved,
                  !.ewmaVariance = RAdd(RMul(RSub(RInt(1), EWMA_ALPHA), @),
                                        RMul(EWMA_ALPHA, RMul(late, late))),
                  !.trend = RAdd(RMul(RSub(RInt(1), EWMA_ALPHA), @), RMul(EWMA_ALPHA, late))]

\* updatePatternStat with a slip: n counts the measured latencies only, an
\* error leaves it as it is
updatePatternStat_uncounted(stat, latency, isErr, dateNow) ==
  LET newStat == [stat EXCEPT !.lastSeen = dateNow]
  IN  IF isErr
      THEN [newStat EXCEPT !.errorBeta = @ + 1]
      ELSE LET delta == RSub(RInt(latency), newStat.ewmaLatency)
           IN  [newStat EXCEPT
                  !.n = @ + 1,
                  !.errorAlpha = @ + 1,
                  !.ewmaLatency = RAdd(@, RMul(EWMA_ALPHA, delta)),
                  !.ewmaVariance = RAdd(RMul(RSub(RInt(1), EWMA_ALPHA), @),
                                        RMul(EWMA_ALPHA, RMul(delta, delta))),
                  !.trend = RAdd(RMul(RSub(RInt(1), EWMA_ALPHA), @),
                                 RMul(EWMA_ALPHA, delta))]

\* updatePatternStat(stat, latency, isError, _config); dateNow is the value of
\* the Date.now() call in its body
updatePatternStat(stat, latency, isErr, dateNow) ==
  LET newStat == [stat EXCEPT !.n = @ + 1, !.lastSeen = dateNow]
  IN  IF isErr
      THEN [newStat EXCEPT !.errorBeta = @ + 1]
      ELSE LET delta == RSub(RInt(latency), newStat.ewmaLatency)
           IN  [newStat EXCEPT
                  !.errorAlpha = @ + 1,
                  !.ewmaLatency = RAdd(@, RMul(EWMA_ALPHA, delta)),
                  !.ewmaVariance = RAdd(RMul(RSub(RInt(1), EWMA_ALPHA), @),
                                        RMul(EWMA_ALPHA, RMul(delta, delta))),
                  !.trend = RAdd(RMul(RSub(RInt(1), EWMA_ALPHA), @),
                                 RMul(EWMA_ALPHA, delta))]

----------------------------------------------------------------------------
(* Stages (unnamed/part_005) and sequential selection                       *)
(* (packages/core/src/bandit.ts)                                            *)

\* the value null, where a pattern id is expected: a tuple, as the ids are,
\* that is no id
Null == <<"null">>

Stages == {"unigram", "bigram", "trigram"}

\* id.startsWith("same_finger:")
startsWithSameFinger(id) == id # <<>> /\ id[1] = "same_finger:"

\* id.length: the tag "same_finger:" is twelve characters long, every other
\* piece of an id is one character
idLength(id) == IF startsWithSameFinger(id) THEN 12 + (Len(id) - 1) ELSE Len(id)

\* getPatternStage of packages/core/src/progression.ts, which has no case
\* for the tagged ids
getPatternStage_untagged(id) ==
  IF idLength(id) = 1 THEN "unigram"
  ELSE IF idLength(id) = 2 THEN "bigram"
  ELSE IF idLength(id) = 3 THEN "trigram"
  ELSE Null

getPatternStage(id) ==
  IF startsWithSameFinger(id) THEN "bigram"
  ELSE IF idLength(id) = 1 THEN "unigram"
  ELSE IF idLength(id) = 2 THEN "bigram"
  ELSE IF idLength(id) = 3 THEN "trigram"
  ELSE Null

\* array.filter(keep), for the two filters of selectNextSequentialPattern
filterStage(s, stage) ==
  SelectSeq(s, LAMBDA r : getPatternStage(r.id) = stage)

\* stageStats.filter((s) => s.n >= 3 && s.ewmaLatency <= targetLatency)
filterLearned(s, target) ==
  SelectSeq(s, LAMBDA r : r.n >= 3 /\ RLe(r.ewmaLatency, target))

\* the same filter without the test of the sample count
filterFast(s, target) ==
  SelectSeq(s, LAMBDA r : RLe(r.ewmaLatency, target))

\* calculateStageMastery with a slip: a record counts whatever its sample
\* count is
calculateStageMastery_unseen(stats, stage, target, totalPossiblePatterns) ==
  IF totalPossiblePatterns = 0 THEN 0
  ELSE LET stageStats == filterStage(stats, stage)
           masteredCount == Len(filterFast(stageStats, target))
       IN  RRound(Rat(masteredCount * 100, totalPossiblePatterns))

\* calculateStageMastery(stats, stage, targetLatency, totalPossiblePatterns):
\* Math.round((masteredCount / totalPossiblePatterns) * 100)
calculateStageMastery(stats, stage, target, totalPossiblePatterns) ==
  IF totalPossiblePatterns = 0 THEN 0
  ELSE LET stageStats == filterStage(stats, stage)
           masteredCount == Len(filterLearned(stageStats, target))
       IN  RRound(Rat(masteredCount * 100, totalPossiblePatterns))

\* getUnlockStatus with a slip: a stage unlocks above 85, not at 85
getUnlockStatus_above(stats, target, counts) ==
  LET unigramMastery == calculateStageMastery(stats, "unigram", target, counts.unigram)
      bigramMastery == calculateStageMastery(stats, "bigram", target, counts.bigram)
  IN  [unigram |-> TRUE,
       bigram |-> unigramMastery > 85,
       trigram |-> unigramMastery > 85 /\ bigramMastery > 85]

\* getUnlockStatus(stats, targetLatency, counts)
getUnlockStatus(stats, target, counts) ==
  LET unigramMastery == calculateStageMastery(stats, "unigram", target, counts.unigram)
      bigramMastery == calculateStageMastery(stats, "bigram", target, counts.bigram)
  IN  [unigram |-> TRUE,
       bigram |-> unigramMastery >= 85,
       trigram |-> unigramMastery >= 85 /\ bigramMastery >= 85]

RECURSIVE filterNotMastered(_, _)
filterNotMastered(s, target) ==
  IF s = <<>> THEN <<>>
  ELSE IF ~isPatternMastered(Head(s), target)
       THEN <<Head(s)>> \o filterNotMastered(Tail(s), target)
       ELSE filterNotMastered(Tail(s), target)

\* the comparator with the operands exchanged: gapA - gapB
compareGap_ascending(a, b, target) ==
  RSub(RSub(a.ewmaLatency, target), RSub(b.ewmaLatency, target))

\* the comparator given to candidates.sort: gapB - gapA
compareGap(a, b, target) ==
  RSub(RSub(b.ewmaLatency, target), RSub(a.ewmaLatency, target))

\* Array.prototype.sort with compareGap, a stable sort: x is put behind the
\* elements the comparator orders before it, and before its equals, which
\* come after it in the array
RECURSIVE sortByGap(_, _)
sortByGap(s, target) ==
  IF s = <<>> THEN <<>>
  ELSE LET x == Head(s)
           rest == sortByGap(Tail(s), target)
           ahead == {k \in 0..Len(rest) :
                       \A j \in 1..k : RLt(RInt(0), compareGap(x, rest[j], target))}
           k == CHOOSE m \in ahead : \A o \in ahead : o <= m
       IN  SubSeq(rest, 1, k) \o <<x>> \o SubSeq(rest, k + 1, Len(rest))

selectNextSequentialPattern(stats, stage, target) ==
  LET stageStats == filterStage(stats, stage)
      candidates == filterNotMastered(stageStats, target)
  IN  IF Len(candidates) = 0 THEN Null
      ELSE sortByGap(candidates, target)[1].id

----------------------------------------------------------------------------
(* The priority score (packages/core/src/bandit.ts).  The two sources of     *)
(* the score outside its arguments are arguments here: z0, the standard      *)
(* normal value sampleNormal computes from Math.random(), and clock, the     *)
(* value of Date.now().                                                      *)

\* the config of a new engine, for a target latency
defaultConfig(target) ==
  [targetLatency |-> target, w_unc |-> RInt(1), w_weak |-> RInt(2),
   w_time |-> Rat(12, 10), w_fatigue |-> RInt(0), w_error |-> RInt(5)]

\* sampleNormal(mean, variance): z0 * Math.sqrt(variance) + mean
sampleNormal(mean, variance, z0) == RAdd(RMul(z0, RSqrt(variance)), mean)

\* timeBoostFunc(deltaMs)
timeBoostFunc(deltaMs) == Rat(deltaMs, 60000)

\* the stable-mastery test of calculatePatternScore: isPatternMastered
\* without the latency condition
isMasteredStable(p) ==
  LET totalEvidence == p.errorAlpha + p.errorBeta
      successRate == Rat(p.errorAlpha, totalEvidence)
  IN  /\ totalEvidence > 10
      /\ RLt(Rat(98, 100), successRate)
      /\ RLt(p.ewmaVariance, RInt(LOW_VAR_THRESHOLD))

\* a penalty of the size of the other terms
masteryPenalty_small(stable) == IF stable THEN 100 ELSE 0

\* masteryPenalty
masteryPenalty(stable) == IF stable THEN 1000 ELSE 0

\* a score that takes the recency boost whatever includeTimeBoost is
calculatePatternScore_boosted(p, config, deterministic, includeTimeBoost, z0, clock) ==
  LET sampleLatency == IF deterministic THEN p.ewmaLatency
                       ELSE sampleNormal(p.ewmaLatency, p.ewmaVariance, z0)
      adjustedLatency == IF startsWithSameFinger(p.id)
                         THEN RMul(sampleLatency, Rat(85, 100))
                         ELSE sampleLatency
      gap == RMax(RInt(0), RSub(adjustedLatency, config.targetLatency))
      timeBoost == timeBoostFunc(clock - p.lastSeen)
      errorRate == Rat(p.errorBeta, p.errorAlpha + p.errorBeta)
  IN  RSub(RAdd(RAdd(RAdd(RMul(config.w_unc, RSqrt(p.ewmaVariance)),
                          RMul(config.w_weak, gap)),
                     RMul(config.w_time, timeBoost)),
                RMul(RMul(config.w_error, errorRate), RInt(100))),
           RInt(masteryPenalty(isMasteredStable(p))))

calculatePatternScore(p, config, deterministic, includeTimeBoost, z0, clock) ==
  LET sampleLatency == IF deterministic THEN p.ewmaLatency
                       ELSE sampleNormal(p.ewmaLatency, p.ewmaVariance, z0)
      adjustedLatency == IF startsWithSameFinger(p.id)
                         THEN RMul(sampleLatency, Rat(85, 100))
                         ELSE sampleLatency
      gap == RMax(RInt(0), RSub(adjustedLatency, config.targetLatency))
      timeBoost == IF includeTimeBoost THEN timeBoostFunc(clock - p.lastSeen)
                   ELSE RInt(0)
      errorRate == Rat(p.errorBeta, p.errorAlpha + p.errorBeta)
  IN  RSub(RAdd(RAdd(RAdd(RMul(config.w_unc, RSqrt(p.ewmaVariance)),
                          RMul(config.w_weak, gap)),
                     RMul(config.w_time, timeBoost)),
                RMul(RMul(config.w_error, errorRate), RInt(100))),
           RInt(masteryPenalty(isMasteredStable(p))))

\* allStats.map(...) of getPatternScores: id, score and record
RECURSIVE scoreAll(_, _, _, _, _, _)
scoreAll(stats, config, deterministic, includeTimeBoost, z0, clock) ==
  IF stats = <<>> THEN <<>>
  ELSE <<[id |-> Head(stats).id,
          score |-> calculatePatternScore(Head(stats), config, deterministic,
                                          includeTimeBoost, z0, clock),
          stat |-> Head(stats)]>>
       \o scoreAll(Tail(stats), config, deterministic, includeTimeBoost, z0, clock)

\* candidates.sort((a, b) => b.score - a.score), a stable sort
RECURSIVE sortByScore(_)
sortByScore(s) ==
  IF s = <<>> THEN <<>>
  ELSE LET x == Head(s)
           rest == sortByScore(Tail(s))
           ahead == {k \in 0..Len(rest) : \A j \in 1..k : RLt(x.score, rest[j].score)}
           k == CHOOSE m \in ahead : \A o \in ahead : o <= m
       IN  SubSeq(rest, 1, k) \o <<x>> \o SubSeq(rest, k + 1, Len(rest))

getPatternScores(stats, config, deterministic, includeTimeBoost, z0, clock) ==
  sortByScore(scoreAll(stats, config, deterministic, includeTimeBoost, z0, clock))

----------------------------------------------------------------------------
(* The word index and the word generator (packages/generator/src)           *)

\* data.words of words.json, in the order of the file
wordList == << <<"d", "e", "e", "d">>, <<"a">>, <<"h", "e", "'", "d">> >>

\* the elements of an array
Range(s) == {s[i] : i \in DOMAIN s}

\* extractPatternsForWord(word): the ids pushed for every index i of the
\* word but the last, as a set (the words of the model are lower case)
extractPatternsForWord(word) ==
  UNION { LET c1 == word[i + 1]
              c2 == word[i + 2]
              f1 == getFinger(c1)
              f2 == getFinger(c2)
          IN  {<<c1, c2>>}
              \cup (IF f1 # Undefined /\ f2 # Undefined /\ f1 = f2 /\ c1 # c2
                    THEN {<<"same_finger:", c1, c2>>} ELSE {})
              \cup (IF i < Len(word) - 2 THEN {<<c1, c2, word[i + 3]>>} ELSE {})
        : i \in 0..(Len(word) - 2) }

\* WordIndexer.getFlowWords(): words.slice(0, FlowCount)
getFlowWords == Range(SubSeq(wordList, 1, IF FlowCount < Len(wordList) THEN FlowCount
                                          ELSE Len(wordList)))

\* WordIndexer.getWordsForPattern(pattern): index.get(pattern) || []
getWordsForPattern(pattern) ==
  {w \in Range(wordList) : pattern \in extractPatternsForWord(w)}

\* WordIndexer.getPatternCounts(): the sizes of the three sets buildIndex
\* fills from the ids extractPatternsForWord yields for the words
getPatternCounts ==
  LET patterns == UNION {extractPatternsForWord(w) : w \in Range(wordList)}
  IN  [unigram |-> Cardinality({p \in patterns : idLength(p) = 1}),
       bigram |-> Cardinality({p \in patterns : idLength(p) = 2
                                                /\ ~startsWithSameFinger(p)}),
       trigram |-> Cardinality({p \in patterns : idLength(p) = 3
                                                 /\ ~startsWithSameFinger(p)})]

\* pattern.replace("same_finger:", "")
withoutTag(pattern) == IF startsWithSameFinger(pattern) THEN Tail(pattern) ELSE pattern

\* word.indexOf(sub): the first index sub is found at, or -1
indexOf(word, sub) ==
  LET found == {i \in 0..(Len(word) - Len(sub)) : SubSeq(word, i + 1, i + Len(sub)) = sub}
  IN  IF found = {} THEN -1 ELSE CHOOSE i \in found : \A j \in found : i <= j

\* the words the focus branch of generateBatch can pick: a random word of the
\* pattern that is not in the history, or any word of the pattern; none
\* without a focus pattern or for a pattern without words
pickFocus(focusPattern, historySet) ==
  IF focusPattern = Null THEN {}
  ELSE LET candidates == getWordsForPattern(focusPattern)
           validCandidates == candidates \ historySet
       IN  IF validCandidates # {} THEN validCandidates ELSE candidates

\* the fallback drawn from the whole word list instead of the flow words
pickFlow_anyWord(historySet) ==
  LET validFlow == Range(wordList) \ historySet
  IN  IF validFlow # {} THEN validFlow ELSE Range(wordList)

\* the words the final fallback can pick: a random flow word that is not in
\* the history, or any flow word (the word list is not empty)
pickFlow(historySet) ==
  LET flowWords == getFlowWords
      validFlow == flowWords \ historySet
  IN  IF validFlow # {} THEN validFlow ELSE flowWords

\* the entry pushed for a word
wordCandidate(word, focusPattern, focused) ==
  [word |-> word,
   targetMatches |->
     IF focused /\ indexOf(word, withoutTag(focusPattern)) >= 0
     THEN <<[pattern |-> focusPattern,
             startIndex |-> indexOf(word, withoutTag(focusPattern))]>>
     ELSE <<>>,
   isFlowWord |-> focusPattern = Null]

\* generateBatch(topPatterns, historyBuffer, batchSize): the batches the
\* function can return, one for every outcome of its random picks
RECURSIVE generateBatch(_, _, _)
generateBatch(topPatterns, historySet, batchSize) ==
  IF batchSize = 0 THEN {<<>>}
  ELSE LET focusPattern == IF Len(topPatterns) > 0 THEN topPatterns[1] ELSE Null
           focus == pickFocus(focusPattern, historySet)
           picks == IF focus # {} THEN focus ELSE pickFlow(historySet)
       IN  UNION { { <<wordCandidate(w, focusPattern, focus # {})>> \o rest :
                       rest \in generateBatch(topPatterns, historySet \cup {w},
                                              batchSize - 1) }
                   : w \in picks }

----------------------------------------------------------------------------
(* Weighted-random selection (packages/engine/src/index.ts).  The patterns   *)
(* of a stage, indexer.getAllPatterns(stage), are taken to be the ids of the *)
(* snapshot's records of the stage, each with its record.                    *)

\* the fallback pattern "th"
SafeFallback == <<"t", "h">>

\* the weight without the floor of 5
weightOf_unfloored(mastery) == 100 - mastery

\* Math.max(5, 100 - c.mastery)
weightOf(mastery) == IF 100 - mastery > 5 THEN 100 - mastery ELSE 5

\* candidates.map(...): id, mastery and record of every pattern
RECURSIVE scored(_, _)
scored(stats, target) ==
  IF stats = <<>> THEN <<>>
  ELSE <<[id |-> Head(stats).id,
          mastery |-> calculateMasteryScore(Head(stats), target),
          stat |-> Head(stats)]>> \o scored(Tail(stats), target)

\* candidates.map(...): pattern and weight of every candidate
RECURSIVE weigh(_)
weigh(candidates) ==
  IF candidates = <<>> THEN <<>>
  ELSE <<[pattern |-> Head(candidates).id,
          weight |-> weightOf(Head(candidates).mastery)]>> \o weigh(Tail(candidates))

\* items.reduce((s, i) => s + i.weight, 0)
RECURSIVE totalWeight(_)
totalWeight(items) ==
  IF items = <<>> THEN 0 ELSE Head(items).weight + totalWeight(Tail(items))

\* the loop of weightedRandom: the first item at which r, lowered by the
\* weights so far, is no longer positive; Null when the loop ends without one
RECURSIVE firstCovering(_, _)
firstCovering(items, r) ==
  IF items = <<>> THEN Null
  ELSE LET left == RSub(r, RInt(Head(items).weight))
       IN  IF RLe(left, RInt(0)) THEN Head(items).pattern
           ELSE firstCovering(Tail(items), left)

\* weightedRandom(items), random being the value of Math.random()
weightedRandom(items, random) ==
  LET total == totalWeight(items)
      hit == firstCovering(items, RMul(random, RInt(total)))
  IN  IF total <= 0 THEN Null
      ELSE IF hit # Null THEN hit
      ELSE items[Len(items)].pattern

\* candidates.sort((a, b) => a.mastery - b.mastery), a stable sort
RECURSIVE sortByMastery(_)
sortByMastery(s) ==
  IF s = <<>> THEN <<>>
  ELSE LET x == Head(s)
           rest == sortByMastery(Tail(s))
           ahead == {k \in 0..Len(rest) : \A j \in 1..k : x.mastery - rest[j].mastery > 0}
           k == CHOOSE m \in ahead : \A o \in ahead : o <= m
       IN  SubSeq(rest, 1, k) \o <<x>> \o SubSeq(rest, k + 1, Len(rest))

\* candidates.find((c) => c.mastery < 100), Null for undefined
RECURSIVE findUnmastered(_)
findUnmastered(s) ==
  IF s = <<>> THEN Null
  ELSE IF Head(s).mastery < 100 THEN Head(s).id
  ELSE findUnmastered(Tail(s))

\* selectTargetPattern() for the records of the current stage
selectTargetPattern(stats, mode, target, random) ==
  LET candidates == scored(stats, target)
      sorted == sortByMastery(candidates)
      weighted == weigh(candidates)
  IN  IF Len(candidates) = 0 THEN SafeFallback
      ELSE IF mode = "sequential"
      THEN IF findUnmastered(sorted) # Null THEN findUnmastered(sorted)
           ELSE sorted[1].id
      ELSE IF weightedRandom(weighted, random) # Null
      THEN weightedRandom(weighted, random)
      ELSE candidates[1].id

----------------------------------------------------------------------------
(* packages/types/src/index.ts *)

BATCH_SIZE == 10

----------------------------------------------------------------------------
(* TypingEngine (unnamed/part_006) *)

\* word[i] with JavaScript's indices, which start at 0; an index outside the
\* word yields undefined, which string concatenation renders as "undefined"
CharAt(word, i) == IF i + 1 \in DOMAIN word THEN word[i + 1] ELSE "undefined"

\* Math.round(a / b) for a >= 0 and b > 0
RoundDiv(a, b) == (2 * a + b) \div (2 * b)

\* Map.set(id, stat)
MapSet(stats, id, stat) ==
  [x \in (DOMAIN stats) \cup {id} |-> IF x = id THEN stat ELSE stats[x]]

\* updateStat with a slip: the stored record is not looked up, every update
\* starts from the initial record
updateStat_forgetful(store, id, latency, isErr, dateNow) ==
  LET updated == updatePatternStat(createInitialStat(id), latency, isErr, dateNow)
  IN  [stats |-> MapSet(store.stats, id, updated),
       dirty |-> store.dirty \cup {id}]

\* updateStat with a slip: the record of a new id is stored as created, the
\* observation is not applied to it
updateStat_blank(store, id, latency, isErr, dateNow) ==
  LET updated == IF id \in DOMAIN store.stats
                 THEN updatePatternStat(store.stats[id], latency, isErr, dateNow)
                 ELSE createInitialStat(id)
  IN  [stats |-> MapSet(store.stats, id, updated),
       dirty |-> store.dirty \cup {id}]

\* updateStat(id, latency, isError) on the pair store = [stats, dirty] of
\* this.patternStats and this.dirtyStats
updateStat(store, id, latency, isErr, dateNow) ==
  LET stat == IF id \in DOMAIN store.stats THEN store.stats[id] ELSE createInitialStat(id)
      updated == updatePatternStat(stat, latency, isErr, dateNow)
  IN  [stats |-> MapSet(store.stats, id, updated),
       dirty |-> store.dirty \cup {id}]

\* the discard rules with a slip: the first character of a word is measured
shouldAttribute_firstChar(i, delta, invalidated) == delta < 2000 /\ ~invalidated

\* the discard rules with a slip: a character that was mistyped is measured
shouldAttribute_afterError(i, delta, invalidated) == i > 0 /\ delta < 2000

\* the discard rules with a slip: a delta of exactly 2000 ms is measured
shouldAttribute_inclusive(i, delta, invalidated) == i > 0 /\ delta <= 2000 /\ ~invalidated

\* the discard rules with a slip: a long pause is measured like any latency
shouldAttribute_unbounded(i, delta, invalidated) == i > 0 /\ ~invalidated

\* handleKey, the rules that discard a latency: the first character of a
\* word, a delta of 2000 ms or more, a character that was mistyped before
shouldAttribute(i, delta, invalidated) == i > 0 /\ delta < 2000 /\ ~invalidated

\* the attribution with a slip: a doubled letter counts as a same-finger pair
attributeLatency_doubled(store, word, i, key, delta, dateNow) ==
  LET prevChar == CharAt(word, i - 1)
      s1 == updateStat(store, <<prevChar, key>>, delta, FALSE, dateNow)
      s2 == updateStat(s1, <<key>>, delta, FALSE, dateNow)
      s3 == IF i > 1
            THEN updateStat(s2, <<CharAt(word, i - 2), prevChar, key>>, delta, FALSE, dateNow)
            ELSE s2
      f1 == getFinger(prevChar)
      f2 == getFinger(key)
  IN  IF f1 # Undefined /\ f2 # Undefined /\ f1 = f2
      THEN updateStat(s3, <<"same_finger:", prevChar, key>>, delta, FALSE, dateNow)
      ELSE s3

\* handleKey, the attribution of an accepted keystroke: bigram, unigram,
\* trigram and same-finger updates of a correct key at index i > 0
attributeLatency(store, word, i, key, delta, dateNow) ==
  LET prevChar == CharAt(word, i - 1)
      s1 == updateStat(store, <<prevChar, key>>, delta, FALSE, dateNow)
      s2 == updateStat(s1, <<key>>, delta, FALSE, dateNow)
      s3 == IF i > 1
            THEN updateStat(s2, <<CharAt(word, i - 2), prevChar, key>>, delta, FALSE, dateNow)
            ELSE s2
      f1 == getFinger(prevChar)
      f2 == getFinger(key)
  IN  IF f1 # Undefined /\ f2 # Undefined /\ f1 = f2 /\ prevChar # key
      THEN updateStat(s3, <<"same_finger:", prevChar, key>>, delta, FALSE, dateNow)
      ELSE s3

\* handleKey, the attribution of a mismatched keystroke
attributeError(store, word, i, dateNow) ==
  IF i > 0
  THEN LET targetChar == CharAt(word, i)
           prevChar == CharAt(word, i - 1)
           s1 == updateStat(store, <<prevChar, targetChar>>, 0, TRUE, dateNow)
           s2 == updateStat(s1, <<targetChar>>, 0, TRUE, dateNow)
           f1 == getFinger(prevChar)
           f2 == getFinger(targetChar)
       IN  IF f1 # Undefined /\ f2 # Undefined /\ f1 = f2 /\ prevChar # targetChar
           THEN updateStat(s2, <<"same_finger:", prevChar, targetChar>>, 0, TRUE, dateNow)
           ELSE s2
  ELSE store

\* checkBatchWpm(), called with the new activeWordIndex and the batch counters
\* handleKey has already updated
checkBatchWpm(wordIndex, dateNow, bStart, bCorrect, bTotal) ==
  IF wordIndex > 0 /\ wordIndex % BATCH_SIZE = 0
  THEN LET duration == dateNow - bStart   \* durationMin * 60000
       IN  /\ wpm' = IF duration > 0 THEN RoundDiv(bCorrect * 12000, duration) ELSE wpm
           /\ accuracy' = IF duration > 0 /\ bTotal > 0
                          THEN RoundDiv(bCorrect * 100, bTotal)
                          ELSE accuracy
           /\ batchStartTime' = 0
           /\ batchCorrectChars' = 0
           /\ batchTotalKeystrokes' = 0
           /\ isBatchStarted' = FALSE
  ELSE /\ UNCHANGED <<wpm, accuracy>>
       /\ batchStartTime' = bStart
       /\ batchCorrectChars' = bCorrect
       /\ batchTotalKeystrokes' = bTotal
       /\ isBatchStarted' = TRUE

\* generateMoreWords(): the generator appends a batch of BATCH_SIZE words
generateMoreWords(length) == wordsLength' = length + BATCH_SIZE

\* advanceWord(now); the word at the new index is one of pool, the words the
\* generator draws from
advanceWord(dateNow, pool, bStart, bCorrect, bTotal) ==
  /\ activeWordIndex' = activeWordIndex + 1
  /\ activeCharIndex' = 0
  /\ typedSoFar' = <<>>
  /\ lastKeyTime' = dateNow
  /\ targetWord' \in pool
  /\ checkBatchWpm(activeWordIndex + 1, dateNow, bStart, bCorrect, bTotal)
  /\ IF wordsLength - (activeWordIndex + 1) < BATCH_SIZE
     THEN generateMoreWords(wordsLength)
     ELSE UNCHANGED wordsLength

\* handleKey, the start of the batch timer: batchStartTime after the
\* keystroke at dateNow
startedAt(dateNow) == IF isBatchStarted THEN batchStartTime ELSE dateNow

\* handleKey, the batch timer and keystroke counter of a keystroke that does
\* not advance the word
countKeystroke(bStart) ==
  /\ batchStartTime' = bStart
  /\ isBatchStarted' = TRUE
  /\ batchTotalKeystrokes' = batchTotalKeystrokes + 1

\* handleKey, "Correct Space -> Advance"
correctSpace(dateNow, pool, bStart) ==
  /\ isError' = FALSE
  /\ correctKeystrokes' = correctKeystrokes + 1
  /\ advanceWord(dateNow, pool, bStart, batchCorrectChars + 1, batchTotalKeystrokes + 1)
  /\ UNCHANGED <<patternStats, dirtyStats, latencyInvalidated>>

\* "Error on Space" with a slip: the key invalidates the next latency, as a
\* mistyped character does
errorOnSpace_invalidates(bStart) ==
  /\ isError' = TRUE
  /\ latencyInvalidated' = TRUE
  /\ countKeystroke(bStart)
  /\ UNCHANGED <<wordsLength, targetWord, activeWordIndex, activeCharIndex, typedSoFar,
                 wpm, accuracy, patternStats, dirtyStats, lastKeyTime, correctKeystrokes,
                 batchCorrectChars>>

\* handleKey, "Error on Space": another key where the space is expected
errorOnSpace(bStart) ==
  /\ isError' = TRUE
  /\ countKeystroke(bStart)
  /\ UNCHANGED <<wordsLength, targetWord, activeWordIndex, activeCharIndex, typedSoFar,
                 wpm, accuracy, patternStats, dirtyStats, lastKeyTime, latencyInvalidated,
                 correctKeystrokes, batchCorrectChars>>

\* handleKey, "Ignore space at the beginning of a word": the early return
ignoreSpace(bStart) ==
  /\ countKeystroke(bStart)
  /\ UNCHANGED <<wordsLength, targetWord, activeWordIndex, activeCharIndex, typedSoFar,
                 isError, wpm, accuracy, patternStats, dirtyStats, lastKeyTime,
                 latencyInvalidated, correctKeystrokes, batchCorrectChars>>

\* the auto-advance with a slip: every word advances on its last character
isAutoAdvance_everyWord(wordIndex, charIndex, word) == charIndex + 1 = Len(word)

\* handleKey, "Auto-advance if last char of last word in batch", for a key
\* accepted at charIndex of word number wordIndex
isAutoAdvance(wordIndex, charIndex, word) ==
  LET isLastCharOfWord == charIndex + 1 = Len(word)
      isLastWordOfBatch == (wordIndex + 1) % BATCH_SIZE = 0
  IN  isLastCharOfWord /\ isLastWordOfBatch

\* handleKey, "Correct": the key is the expected character
correctKey(key, dateNow, pool, bStart) ==
  LET delta == dateNow - lastKeyTime
      store == [stats |-> patternStats, dirty |-> dirtyStats]
      after == IF shouldAttribute(activeCharIndex, delta, latencyInvalidated)
               THEN attributeLatency(store, targetWord, activeCharIndex, key, delta, dateNow)
               ELSE store
  IN  /\ isError' = FALSE
      /\ correctKeystrokes' = correctKeystrokes + 1
      /\ patternStats' = after.stats
      /\ dirtyStats' = after.dirty
      /\ latencyInvalidated' = FALSE
      /\ IF isAutoAdvance(activeWordIndex, activeCharIndex, targetWord)
         THEN advanceWord(dateNow, pool, bStart, batchCorrectChars + 1,
                          batchTotalKeystrokes + 1)
         ELSE /\ typedSoFar' = Append(typedSoFar, key)
              /\ activeCharIndex' = activeCharIndex + 1
              /\ lastKeyTime' = dateNow
              /\ countKeystroke(bStart)
              /\ batchCorrectChars' = batchCorrectChars + 1
              /\ UNCHANGED <<wordsLength, targetWord, activeWordIndex, wpm, accuracy>>

\* "Error" with a slip: the mistyped key is shown in the typed buffer
errorKey_typed(dateNow, bStart) ==
  LET store == [stats |-> patternStats, dirty |-> dirtyStats]
      after == attributeError(store, targetWord, activeCharIndex, dateNow)
  IN  /\ isError' = TRUE
      /\ latencyInvalidated' = TRUE
      /\ patternStats' = after.stats
      /\ dirtyStats' = after.dirty
      /\ typedSoFar' = Append(typedSoFar, CharAt(targetWord, activeCharIndex))
      /\ countKeystroke(bStart)
      /\ UNCHANGED <<wordsLength, targetWord, activeWordIndex, activeCharIndex, wpm,
                     accuracy, lastKeyTime, correctKeystrokes, batchCorrectChars>>

\* handleKey, "Error": the key is not the expected character
errorKey(dateNow, bStart) ==
  LET store == [stats |-> patternStats, dirty |-> dirtyStats]
      after == attributeError(store, targetWord, activeCharIndex, dateNow)
  IN  /\ isError' = TRUE
      /\ latencyInvalidated' = TRUE
      /\ patternStats' = after.stats
      /\ dirtyStats' = after.dirty
      /\ countKeystroke(bStart)
      /\ UNCHANGED <<wordsLength, targetWord, activeWordIndex, activeCharIndex, typedSoFar,
                     wpm, accuracy, lastKeyTime, correctKeystrokes, batchCorrectChars>>

\* handleKey(key), called dt milliseconds after the previous handler call
HandleKey(key, dt, pool) ==
  LET dateNow == now + dt
      bStart == startedAt(dateNow)
      wordFinished == activeCharIndex = Len(targetWord)
  IN
  /\ now' = dateNow
  /\ lastCall' = [op |-> "handleKey", key |-> key, loaded |-> isLoaded,
                  wordIndex |-> activeWordIndex, charIndex |-> activeCharIndex,
                  word |-> targetWord, delta |-> dateNow - lastKeyTime,
                  invalidated |-> latencyInvalidated, error |-> isError]
  /\ IF ~isLoaded
     THEN UNCHANGED engineVars
     ELSE /\ UNCHANGED isLoaded
          /\ totalKeystrokes' = totalKeystrokes + 1
          /\ IF wordFinished
             THEN IF key = " " THEN correctSpace(dateNow, pool, bStart)
                  ELSE errorOnSpace(bStart)
             ELSE IF key = " " /\ activeCharIndex = 0 THEN ignoreSpace(bStart)
             ELSE IF key = CharAt(targetWord, activeCharIndex)
                  THEN correctKey(key, dateNow, pool, bStart)
                  ELSE errorKey(dateNow, bStart)

\* Array.from(this.patternStats.values()), in some order of the ids
RECURSIVE valuesOf(_)
valuesOf(stats) ==
  IF DOMAIN stats = {} THEN <<>>
  ELSE LET id == CHOOSE x \in DOMAIN stats : TRUE
       IN  <<stats[id]>> \o valuesOf([x \in (DOMAIN stats) \ {id} |-> stats[x]])

\* the stage sizes checkProgression uses when there is no indexer yet
fallbackCounts == [unigram |-> 26, bigram |-> 100, trigram |-> 100]

\* checkProgression(), once it has the stage sizes: state.progression after
\* the assignments to isUnlocked and mastery
gateFor(prog, stats, target, counts) ==
  [prog EXCEPT
     !.isUnlocked = getUnlockStatus(stats, target, counts),
     !.mastery = [unigram |-> calculateStageMastery(stats, "unigram", target,
                                                    counts.unigram),
                  bigram |-> calculateStageMastery(stats, "bigram", target,
                                                   counts.bigram),
                  trigram |-> calculateStageMastery(stats, "trigram", target,
                                                    counts.trigram)]]

\* checkProgression(): the stage sizes are the indexer's, which init() sets
checkProgression(prog, stats, target, indexed) ==
  gateFor(prog, stats, target, IF indexed THEN getPatternCounts ELSE fallbackCounts)

\* loadedStats.forEach((s) => this.patternStats.set(s.id, s))
loadInto(stats, loadedStats) ==
  [x \in (DOMAIN stats) \cup (DOMAIN loadedStats) |->
     IF x \in DOMAIN loadedStats THEN loadedStats[x] ELSE stats[x]]

\* init() when storage holds the records loadedStats and a config whose
\* targetLatency is loadedTarget: the corpus is indexed, the records and the
\* config are loaded, the gate is evaluated, the first batch is generated,
\* the engine is marked loaded and the auto-save timer is set; firstWord is
\* the first word of the batch
EngineLoad(firstWord, loadedStats, loadedTarget) ==
  /\ ~isLoaded
  /\ isLoaded' = TRUE
  /\ wordsLength' = BATCH_SIZE
  /\ targetWord' = firstWord
  /\ batchStartTime' = now
  /\ patternStats' = loadInto(patternStats, loadedStats)
  /\ targetLatency' = loadedTarget
  /\ progression' = checkProgression(progression, valuesOf(patternStats'),
                                     loadedTarget, TRUE)
  /\ saveInterval' = TRUE
  /\ handed' = loadInto(handed, loadedStats)
  /\ lastCall' = [op |-> "init", key |-> "", loaded |-> isLoaded,
                  wordIndex |-> activeWordIndex, charIndex |-> activeCharIndex,
                  word |-> targetWord, delta |-> 0, invalidated |-> latencyInvalidated,
                  error |-> isError]
  /\ UNCHANGED <<activeWordIndex, activeCharIndex, typedSoFar, isError, wpm, accuracy,
                 dirtyStats, lastKeyTime, latencyInvalidated,
                 totalKeystrokes, correctKeystrokes, batchCorrectChars,
                 batchTotalKeystrokes, isBatchStarted, now, pstat, pstatIn, pstatObs,
                 allStats, lastQuery, steady, saves>>

\* init(), "Sync state meta": state.meta.targetWpm for a loaded config whose
\* targetLatency is loadedTarget
loadedTargetWpm(loadedTarget) == RoundDiv(60000, loadedTarget[1] * 5)

\* init() of a new install: storage holds no record and no config
EngineInit(firstWord) == EngineLoad(firstWord, <<>>, targetLatency)

\* the engine as constructed: the field initialisers of TypingEngine
EngineNew ==
  /\ isLoaded = FALSE
  /\ wordsLength = 0
  /\ targetWord = <<>>
  /\ activeWordIndex = 0
  /\ activeCharIndex = 0
  /\ typedSoFar = <<>>
  /\ isError = FALSE
  /\ wpm = 0
  /\ accuracy = 100
  /\ patternStats = <<>>
  /\ dirtyStats = {}
  /\ lastKeyTime = 0
  /\ latencyInvalidated = FALSE
  /\ totalKeystrokes = 0
  /\ correctKeystrokes = 0
  /\ batchStartTime = 0
  /\ batchCorrectChars = 0
  /\ batchTotalKeystrokes = 0
  /\ isBatchStarted = FALSE
  /\ now = StartTime
  /\ lastCall = [op |-> "new", key |-> "", loaded |-> FALSE, wordIndex |-> 0,
                 charIndex |-> 0, word |-> <<>>, delta |-> 0, invalidated |-> FALSE,
                 error |-> FALSE]
  /\ progression = [currentStage |-> "unigram",
                    learningMode |-> "reinforced",
                    mastery |-> [unigram |-> 0, bigram |-> 0, trigram |-> 0],
                    isUnlocked |-> [unigram |-> TRUE, bigram |-> FALSE,
                                    trigram |-> FALSE]]
  /\ saveInterval = FALSE
  /\ saves = <<>>
  /\ handed = <<>>

NoObservation == [latency |-> 0, isError |-> FALSE, at |-> 0, count |-> 0]

\* no function of the snapshot has been called
NoQuery == [op |-> "none"]

\* the store of a new install, and the default config.targetLatency
NoSnapshot ==
  /\ allStats = <<>>
  /\ targetLatency = RInt(200)
  /\ lastQuery = NoQuery

Init ==
  /\ EngineNew
  /\ pstat = createInitialStat(<<"e">>)
  /\ pstatIn = pstat
  /\ pstatObs = NoObservation
  /\ NoSnapshot
  /\ steady = 0

Load == \E w \in Corpus : EngineInit(w)

\* the word list the generator draws the word at index wordIndex from
Pool(wordIndex) == IF 0 < steady /\ wordIndex < WarmWords THEN {<<"a">>} ELSE Corpus

\* an arbitrary keystroke: any key, at any pace
Key ==
  /\ totalKeystrokes - steady < MaxKeys
  /\ steady = 0 \/ activeWordIndex >= WarmWords
  /\ isLoaded
  /\ \E key \in Keys, dt \in Ticks : HandleKey(key, dt, Pool(activeWordIndex + 1))
  /\ UNCHANGED <<statVars, steady, sessionVars>>

\* a keystroke that arrives while init() is still loading
EarlyKey ==
  /\ ~isLoaded
  /\ \E key \in Keys : HandleKey(key, 0, Corpus)
  /\ UNCHANGED <<statVars, steady, sessionVars>>

\* a keystroke of the steady opening: the expected key of a one-letter word,
\* or the space after it
Steady ==
  /\ isLoaded
  /\ totalKeystrokes = steady
  /\ activeWordIndex < WarmWords
  /\ targetWord = <<"a">>
  /\ steady' = steady + 1
  /\ HandleKey(IF activeCharIndex = Len(targetWord) THEN " "
               ELSE CharAt(targetWord, activeCharIndex),
               SteadyTick, Pool(activeWordIndex + 1))
  /\ UNCHANGED <<statVars, sessionVars>>

Next == Load \/ EarlyKey \/ Key \/ Steady

Spec == Init /\ [][Next]_vars

----------------------------------------------------------------------------
(* Properties of handleKey, checked under Spec.  In a step, the unprimed      *)
(* variables are the engine before the keystroke and the primed ones the      *)
(* engine after it.                                                           *)

\* the step is a keystroke handled by the loaded engine
KeyStep == isLoaded /\ lastCall'.op = "handleKey" /\ totalKeystrokes' = totalKeystrokes + 1

\* the key of the step, and its distance from the last accepted keystroke
Typed == lastCall'.key

Delta == now' - lastKeyTime

\* the cursor is behind the last character: the delimiter is expected
AtWordEnd == activeCharIndex = Len(targetWord)

\* the expected character
Expected == CharAt(targetWord, activeCharIndex)

\* the step is the keystroke of the expected character
CorrectStep == KeyStep /\ ~AtWordEnd /\ Typed = Expected

\* the step is the keystroke of the delimiter where it is expected
DelimiterStep == KeyStep /\ AtWordEnd /\ Typed = " "

\* the step is the keystroke of a space at the beginning of a word, which the
\* engine ignores
IgnoredSpaceStep == KeyStep /\ ~AtWordEnd /\ Typed = " " /\ activeCharIndex = 0

\* the step is a mismatched keystroke at a character of the word
MismatchStep == KeyStep /\ ~AtWordEnd /\ Typed # Expected /\ ~IgnoredSpaceStep

\* the step is a key other than the delimiter where the delimiter is expected
WordEndErrorStep == KeyStep /\ AtWordEnd /\ Typed # " "

\* the expected character is the last one of the last word of a batch
LastOfBatch ==
  /\ activeCharIndex + 1 = Len(targetWord)
  /\ (activeWordIndex + 1) % BATCH_SIZE = 0

\* the cursor moves to the next character of the word
AdvancesByOne ==
  /\ activeCharIndex' = activeCharIndex + 1
  /\ activeWordIndex' = activeWordIndex

\* the cursor moves to the beginning of the next word
AdvancesWord ==
  /\ activeWordIndex' = activeWordIndex + 1
  /\ activeCharIndex' = 0
  /\ typedSoFar' = <<>>

\* a and b have a finger, the same one, and are not the same character
SameFingerPair(a, b) ==
  /\ a \in DOMAIN FINGER_MAP
  /\ b \in DOMAIN FINGER_MAP
  /\ FINGER_MAP[a] = FINGER_MAP[b]
  /\ a # b

\* the record of a pattern before the step; a pattern never seen has the
\* initial record
RecordBefore(id) ==
  IF id \in DOMAIN patternStats THEN patternStats[id] ELSE createInitialStat(id)

\* the step changes no record but those of ids
OthersUnchanged(ids) ==
  /\ DOMAIN patternStats' = DOMAIN patternStats \cup ids
  /\ \A id \in DOMAIN patternStats \ ids : patternStats'[id] = patternStats[id]

\* the patterns that end at the expected character w[i], i > 0: the unigram,
\* the bigram, the trigram if i > 1 and the same-finger pair if it is one
PatternsAtCursor ==
  LET w == targetWord
      i == activeCharIndex
  IN  {<<CharAt(w, i)>>, <<CharAt(w, i - 1), CharAt(w, i)>>}
        \cup (IF i > 1 THEN {<<CharAt(w, i - 2), CharAt(w, i - 1), CharAt(w, i)>>} ELSE {})
        \cup (IF SameFingerPair(CharAt(w, i - 1), CharAt(w, i))
              THEN {<<"same_finger:", CharAt(w, i - 1), CharAt(w, i)>>}
              ELSE {})

\* each pattern at the cursor gets one non-error update with the step's delta,
\* and no other record changes
AttributesLatency ==
  /\ \A id \in PatternsAtCursor :
       /\ id \in DOMAIN patternStats'
       /\ patternStats'[id] = updatePatternStat(RecordBefore(id), Delta, FALSE, now')
  /\ OthersUnchanged(PatternsAtCursor)

\* the record of id gets one error observation: n and errorBeta one more, the
\* latency statistics as before
ErrorObservedOn(id) ==
  /\ id \in DOMAIN patternStats'
  /\ patternStats'[id].n = RecordBefore(id).n + 1
  /\ patternStats'[id].errorBeta = RecordBefore(id).errorBeta + 1
  /\ patternStats'[id].errorAlpha = RecordBefore(id).errorAlpha
  /\ patternStats'[id].ewmaLatency = RecordBefore(id).ewmaLatency
  /\ patternStats'[id].ewmaVariance = RecordBefore(id).ewmaVariance
  /\ patternStats'[id].trend = RecordBefore(id).trend

\* the last handler call was a keystroke handled by the loaded engine
LastHandled == lastCall.op = "handleKey" /\ lastCall.loaded

\* ... which found the cursor behind the last character of the word
LastAtWordEnd == lastCall.charIndex = Len(lastCall.word)

\* ... of the expected character
LastCorrect ==
  /\ LastHandled
  /\ ~LastAtWordEnd
  /\ lastCall.key = CharAt(lastCall.word, lastCall.charIndex)

\* ... of another key than the expected character
LastMismatch ==
  /\ LastHandled
  /\ ~LastAtWordEnd
  /\ lastCall.key # CharAt(lastCall.word, lastCall.charIndex)
  /\ ~(lastCall.key = " " /\ lastCall.charIndex = 0)

\* C1: a correct keystroke at index i > 0 with delta < 2000 and no pending
\* invalidation applies exactly one non-error update with that delta to the
\* unigram w[i], the bigram w[i-1]w[i], the trigram iff i > 1 and the
\* same-finger pair iff both characters have the same finger and differ; no
\* other pattern record changes.
C1_Attribution ==
  [][(CorrectStep /\ activeCharIndex > 0 /\ Delta < 2000 /\ ~latencyInvalidated)
       => AttributesLatency]_vars

\* the last character of "deed" was attributed: a trigram and a same-finger
\* pair, after the doubled letter "ee", which is no same-finger pair
C1_Witness ==
  /\ LastCorrect
  /\ lastCall.word = <<"d", "e", "e", "d">>
  /\ lastCall.charIndex = 3
  /\ lastCall.delta < 2000
  /\ ~lastCall.invalidated
  /\ <<"e", "e", "d">> \in DOMAIN patternStats
  /\ <<"same_finger:", "e", "d">> \in DOMAIN patternStats
  /\ <<"e", "e">> \in DOMAIN patternStats
  /\ patternStats[<<"e">>].n = 2

\* C2: a correct keystroke at index 0 of a word, the first character after a
\* delimiter advance or an auto-advance included, changes no pattern record,
\* and neither does a delimiter keystroke (the space that ends a word, or the
\* space the engine ignores at the beginning of one).
C2_NoAttribution ==
  [][((CorrectStep /\ activeCharIndex = 0) \/ DelimiterStep \/ IgnoredSpaceStep)
       => patternStats' = patternStats]_vars

\* the first character of the word after an auto-advance was accepted within
\* 2000 ms, with records in the store
C2_Witness ==
  /\ LastCorrect
  /\ lastCall.charIndex = 0
  /\ lastCall.wordIndex = BATCH_SIZE
  /\ lastCall.delta < 2000
  /\ ~lastCall.invalidated
  /\ patternStats # <<>>

\* C3 as stated: after mismatched keystrokes at a cursor position the correct
\* keystroke changes no pattern record, advances the cursor by one and
\* consumes the invalidation flag, so that the following correct keystroke
\* with delta < 2000 attributes normally.
C3_CorrectionAdvancesByOne ==
  [][/\ (LastMismatch /\ CorrectStep)
          => /\ patternStats' = patternStats
             /\ AdvancesByOne
             /\ latencyInvalidated /\ ~latencyInvalidated'
     /\ (LastCorrect /\ lastCall.invalidated /\ CorrectStep /\ activeCharIndex > 0
           /\ Delta < 2000)
          => AttributesLatency]_vars

\* C3 as amended: ... advances the cursor by one, or to the beginning of the
\* next word when the character is the last one of the last word of a batch
\* ...
C3_Correction ==
  [][/\ (LastMismatch /\ CorrectStep)
          => /\ patternStats' = patternStats
             /\ IF LastOfBatch THEN AdvancesWord ELSE AdvancesByOne
             /\ latencyInvalidated /\ ~latencyInvalidated'
     /\ (LastCorrect /\ lastCall.invalidated /\ CorrectStep /\ activeCharIndex > 0
           /\ Delta < 2000)
          => AttributesLatency]_vars

\* a character at index > 0 was accepted within 2000 ms after it was mistyped
C3_Witness ==
  /\ LastCorrect
  /\ lastCall.invalidated
  /\ lastCall.error
  /\ lastCall.charIndex > 0
  /\ lastCall.delta < 2000
  /\ ~latencyInvalidated
  /\ activeCharIndex = lastCall.charIndex + 1

\* C4 as stated: a correct keystroke at index > 0 with delta >= 2000 changes
\* no pattern record, yet the cursor advances by one, the key is appended to
\* typedSoFar and lastKeyTime is set to now.
C4_OutlierAdvancesByOne ==
  [][(CorrectStep /\ activeCharIndex > 0 /\ Delta >= 2000)
       => /\ patternStats' = patternStats
          /\ AdvancesByOne
          /\ typedSoFar' = Append(typedSoFar, Typed)
          /\ lastKeyTime' = now']_vars

\* C4 as amended: ... yet lastKeyTime is set to now and the cursor advances by
\* one with the key appended to typedSoFar, or, when the character is the last
\* one of the last word of a batch, to the beginning of the next word with
\* typedSoFar empty.
C4_Outlier ==
  [][(CorrectStep /\ activeCharIndex > 0 /\ Delta >= 2000)
       => /\ patternStats' = patternStats
          /\ IF LastOfBatch
             THEN AdvancesWord
             ELSE AdvancesByOne /\ typedSoFar' = Append(typedSoFar, Typed)
          /\ lastKeyTime' = now']_vars

\* a character at index > 0 was accepted exactly 2000 ms after the one before
\* it, with no mistake in between
C4_Witness ==
  /\ LastCorrect
  /\ lastCall.charIndex > 0
  /\ lastCall.delta = 2000
  /\ ~lastCall.invalidated
  /\ activeCharIndex = lastCall.charIndex + 1
  /\ lastKeyTime = now

\* C5 as stated: a mismatched keystroke at any index, index 0 included, gives
\* the unigram of the expected character exactly one error observation; at an
\* index > 0 the bigram (previous, expected) and its same-finger variant, if it
\* is one, get one too; no trigram record changes.
C5_ErrorAttribution ==
  [][MismatchStep =>
       LET i == activeCharIndex
           prev == CharAt(targetWord, i - 1)
       IN  /\ ErrorObservedOn(<<Expected>>)
           /\ i > 0 => ErrorObservedOn(<<prev, Expected>>)
           /\ (i > 0 /\ SameFingerPair(prev, Expected))
                => ErrorObservedOn(<<"same_finger:", prev, Expected>>)
           /\ \A id \in DOMAIN patternStats' :
                (Len(id) = 3 /\ id[1] # "same_finger:")
                  => id \in DOMAIN patternStats /\ patternStats'[id] = patternStats[id]]_vars

\* C6: a mismatched keystroke sets isError and leaves activeCharIndex,
\* activeWordIndex and typedSoFar unchanged; the flag never blocks input: from
\* any state with isError the expected key is accepted and clears the flag.
C6_ErrorFlag ==
  [][/\ (MismatchStep \/ WordEndErrorStep)
          => /\ isError'
             /\ UNCHANGED <<activeCharIndex, activeWordIndex, typedSoFar>>
     /\ (isError /\ (CorrectStep \/ DelimiterStep))
          => /\ ~isError'
             /\ AdvancesByOne \/ AdvancesWord]_vars

\* the expected character was accepted while the error flag was set
C6_Witness ==
  /\ LastCorrect
  /\ lastCall.error
  /\ ~isError
  /\ activeCharIndex = lastCall.charIndex + 1
  /\ typedSoFar # <<>>

\* C7 as stated: the active word index advances only by a delimiter keystroke
\* received while activeCharIndex equals the word length.
C7_OnlyDelimiter ==
  [][activeWordIndex' # activeWordIndex => DelimiterStep]_vars

\* C7 as amended: the active word index advances only by a delimiter keystroke
\* received while activeCharIndex equals the word length, or by the correct
\* keystroke of the last character of the last word of a batch.
C7_DelimiterOrAutoAdvance ==
  [][activeWordIndex' # activeWordIndex
       => /\ AdvancesWord
          /\ DelimiterStep \/ (CorrectStep /\ LastOfBatch)]_vars

\* the last character of the last word of the first batch was accepted, and
\* the engine is at the first word of the second batch
C7_Witness ==
  /\ LastCorrect
  /\ lastCall.wordIndex = BATCH_SIZE - 1
  /\ activeWordIndex = BATCH_SIZE
  /\ activeCharIndex = 0

\* C8: where the delimiter is expected, any other key sets isError and leaves
\* activeWordIndex, activeCharIndex, typedSoFar, the invalidation flag and
\* every pattern record unchanged.
C8_WordEndError ==
  [][WordEndErrorStep
       => /\ isError'
          /\ UNCHANGED <<activeWordIndex, activeCharIndex, typedSoFar, latencyInvalidated,
                         patternStats>>]_vars

\* a key other than the space was typed behind a word of several characters,
\* with records in the store
C8_Witness ==
  /\ LastHandled
  /\ LastAtWordEnd
  /\ lastCall.key # " "
  /\ Len(lastCall.word) > 1
  /\ patternStats # <<>>
  /\ isError
  /\ ~latencyInvalidated

\* C12: in every reachable state every pattern record has errorAlpha >= 1 and
\* errorBeta >= 1, and no engine step decreases n, errorAlpha or errorBeta of
\* any record (nor removes a record).
C12_Counts ==
  /\ [](\A id \in DOMAIN patternStats :
          patternStats[id].errorAlpha >= 1 /\ patternStats[id].errorBeta >= 1)
  /\ [][\A id \in DOMAIN patternStats :
          /\ id \in DOMAIN patternStats'
          /\ patternStats'[id].n >= patternStats[id].n
          /\ patternStats'[id].errorAlpha >= patternStats[id].errorAlpha
          /\ patternStats'[id].errorBeta >= patternStats[id].errorBeta]_vars

\* the record of "e" after a latency and an error: the second "e" of "deed"
\* was mistyped
C12_Witness ==
  /\ <<"e">> \in DOMAIN patternStats
  /\ patternStats[<<"e">>].n = 2
  /\ patternStats[<<"e">>].errorAlpha = 2
  /\ patternStats[<<"e">>].errorBeta = 2

\* the shapes of the ids handleKey passes to updateStat
IsSingle(id) == Len(id) = 1 /\ ~startsWithSameFinger(id)

IsPair(id) == Len(id) = 2 /\ ~startsWithSameFinger(id)

IsTaggedPair(id) == Len(id) = 3 /\ startsWithSameFinger(id)

IsTriple(id) == Len(id) = 3 /\ ~startsWithSameFinger(id)

\* C23: every id the engine has updated a record for is a single character,
\* a pair, a same_finger:-tagged pair or a triple, and getPatternStage gives
\* it the stage unigram, bigram, bigram and trigram respectively, never null.
C23_EveryIdHasAStage ==
  \A id \in DOMAIN patternStats :
     /\ IsSingle(id) \/ IsPair(id) \/ IsTaggedPair(id) \/ IsTriple(id)
     /\ getPatternStage(id) \in Stages
     /\ IsSingle(id) => getPatternStage(id) = "unigram"
     /\ IsPair(id) => getPatternStage(id) = "bigram"
     /\ IsTaggedPair(id) => getPatternStage(id) = "bigram"
     /\ IsTriple(id) => getPatternStage(id) = "trigram"

\* the store holds an id of each of the four shapes
C23_Witness ==
  /\ \E id \in DOMAIN patternStats : IsSingle(id)
  /\ \E id \in DOMAIN patternStats : IsPair(id)
  /\ \E id \in DOMAIN patternStats : IsTaggedPair(id)
  /\ \E id \in DOMAIN patternStats : IsTriple(id)

\* ewmaLatency of the record of id before the step: 300, the initial one,
\* when the step inserts the record
LatencyBefore(id) ==
  IF id \in DOMAIN patternStats THEN patternStats[id].ewmaLatency
  ELSE createInitialStat(id).ewmaLatency

\* C38: with a clock that never goes back, every record the engine builds by
\* keystrokes has 0 <= ewmaLatency < 2000 and ewmaVariance >= 0; ewmaLatency
\* moves only when a keystroke attributes a latency, that latency is from 0
\* to below 2000, and the new value lies between the old value and that
\* latency, so that it stays between the smallest and the largest of 300 and
\* the attributed latencies.
C38_LatencyBounded ==
  [][\A id \in DOMAIN patternStats' :
        LET stat == patternStats'[id]
            before == LatencyBefore(id)
        IN  /\ RLe(RInt(0), stat.ewmaLatency)
            /\ RLt(stat.ewmaLatency, RInt(2000))
            /\ RLe(RInt(0), stat.ewmaVariance)
            /\ stat.ewmaLatency # before
                 => /\ KeyStep
                    /\ 0 <= Delta /\ Delta < 2000
                    /\ RLe(RMin(before, RInt(Delta)), stat.ewmaLatency)
                    /\ RLe(stat.ewmaLatency, RMax(before, RInt(Delta)))]_vars

\* a record after two latencies, of 150 and of 180 ms: the estimate is below
\* 300 and above both
C38_Witness ==
  /\ lastCall.op = "handleKey"
  /\ lastCall.delta = 180
  /\ \E id \in DOMAIN patternStats :
        /\ patternStats[id].n = 2
        /\ patternStats[id].errorBeta = 1
        /\ patternStats[id].lastSeen = now
        /\ RLt(RInt(180), patternStats[id].ewmaLatency)
        /\ RLt(patternStats[id].ewmaLatency,
               RAdd(RInt(300), RMul(EWMA_ALPHA, RSub(RInt(150), RInt(300)))))

\* the step is handleKey(" ") of the loaded engine with the cursor at the
\* beginning of a word that has characters
SpaceAtWordStart ==
  /\ isLoaded
  /\ lastCall'.op = "handleKey"
  /\ lastCall'.key = " "
  /\ activeCharIndex = 0
  /\ ~AtWordEnd

\* C33: a space pressed at the beginning of a word changes no engine state:
\* cursor, typed buffer, error flag, pattern records, invalidation flag,
\* keystroke and accuracy counters and batch timer stay as they are.
C33_IgnoredSpaceChangesNothing ==
  [][SpaceAtWordStart => UNCHANGED engineVars]_vars

----------------------------------------------------------------------------
(* updatePatternStat on its own: a record under a sequence of observations *)

\* the records the sequence starts from: a fresh one, and two that an earlier
\* session stored
StatInputs ==
  { createInitialStat(<<"e">>),
    [id |-> <<"t", "h">>, n |-> 12, ewmaLatency |-> RInt(180), ewmaVariance |-> RInt(300),
     errorAlpha |-> 12, errorBeta |-> 2, lastSeen |-> 4000, trend |-> RInt(-6)],
    [id |-> <<"same_finger:", "e", "d">>, n |-> 3, ewmaLatency |-> RInt(260),
     ewmaVariance |-> RInt(3010), errorAlpha |-> 2, errorBeta |-> 3, lastSeen |-> 5000,
     trend |-> RInt(-18)] }

\* the latencies observed
Latencies == {100, 180, 400}

\* milliseconds between two observations
StatTicks == {0, 150}

InitStat ==
  /\ EngineNew
  /\ pstat \in StatInputs
  /\ pstatIn = pstat
  /\ pstatObs = NoObservation
  /\ NoSnapshot
  /\ steady = 0

\* one call pstat = updatePatternStat(pstat, latency, isError)
Observe(latency, isErr, dt) ==
  /\ now' = now + dt
  /\ pstatObs.count < MaxObs
  /\ pstatIn' = pstat
  /\ pstatObs' = [latency |-> latency, isError |-> isErr, at |-> now + dt,
                  count |-> pstatObs.count + 1]
  /\ pstat' = updatePatternStat(pstat, latency, isErr, now + dt)
  /\ UNCHANGED <<engineVars, lastCall, steady, allStats, targetLatency, lastQuery,
                 sessionVars>>

ObserveLatency == \E latency \in Latencies, dt \in StatTicks : Observe(latency, FALSE, dt)

ObserveError == \E dt \in StatTicks : Observe(0, TRUE, dt)

\* the call of Observe once more, with the same record and the same
\* observation, dt milliseconds later: updatePatternStat(pstatIn, latency,
\* isError) does not change the record passed in, so the caller still has it
Repeat ==
  /\ pstatObs.count > 0
  /\ IF lastQuery.op = "none" THEN TRUE ELSE lastQuery.count # pstatObs.count
  /\ \E dt \in StatTicks :
        /\ now' = now + dt
        /\ lastQuery' = [op |-> "updatePatternStat", stat |-> pstatIn,
                         latency |-> pstatObs.latency, isError |-> pstatObs.isError,
                         count |-> pstatObs.count,
                         result |-> updatePatternStat(pstatIn, pstatObs.latency,
                                                      pstatObs.isError, now + dt)]
  /\ UNCHANGED <<engineVars, lastCall, steady, pstat, pstatIn, pstatObs, allStats,
                 targetLatency, sessionVars>>

NextStat == ObserveLatency \/ ObserveError \/ Repeat

SpecStat == InitStat /\ [][NextStat]_vars

\* C35: for every record made from createInitialStat by updatePatternStat
\* calls, n = errorAlpha + errorBeta - 2: each observation raises n and exactly
\* one of the two counts, which both start at 1.
C35_SampleCountIsSum ==
  pstat.n = pstat.errorAlpha + pstat.errorBeta - 2

\* a record made from the initial one by an error and a measured latency
C35_Witness ==
  /\ pstat.id = <<"e">>
  /\ pstatObs.count = 2
  /\ pstat.n = 2
  /\ pstat.errorAlpha = 2
  /\ pstat.errorBeta = 2

\* the last call repeated the call that made pstat
Repeated == lastQuery.op = "updatePatternStat" /\ lastQuery.count = pstatObs.count

\* C32: updatePatternStat is pure: the record passed in is not modified, and
\* two calls with equal arguments (record, latency, isError) return equal
\* records.
C32_Pure ==
  Repeated => /\ lastQuery.stat = pstatIn
              /\ lastQuery.result = pstat

----------------------------------------------------------------------------
(* The functions of a store snapshot on their own: mastery, selection and    *)
(* batch generation, applied to a snapshot allStats of the store and a       *)
(* target latency                                                            *)

\* a record as the store holds it
storedStat(id, n, latency, variance, alpha, beta) ==
  [id |-> id, n |-> n, ewmaLatency |-> RInt(latency), ewmaVariance |-> RInt(variance),
   errorAlpha |-> alpha, errorBeta |-> beta, lastSeen |-> 4000, trend |-> RInt(0)]

\* the records a snapshot is made of: slow and fast unigrams, two of them
\* equally slow, a mastered unigram, a unigram never observed, two bigrams, a
\* same-finger pair, and a record with few samples and many successes
QueryRecords ==
  { storedStat(<<"a">>, 12, 250, 900, 12, 2),
    storedStat(<<"c">>, 20, 250, 500, 17, 5),
    storedStat(<<"b">>, 12, 180, 300, 13, 1),
    storedStat(<<"m">>, 60, 150, 100, 61, 1),
    createInitialStat(<<"e">>),
    storedStat(<<"t", "h">>, 12, 260, 300, 12, 2),
    storedStat(<<"h", "e">>, 12, 240, 300, 12, 2),
    storedStat(<<"same_finger:", "e", "d">>, 3, 270, 800, 4, 1),
    storedStat(<<"z">>, 5, 150, 100, 60, 1) }

\* the snapshots: up to n records with different ids, in any order
RECURSIVE Snapshots(_)
Snapshots(n) ==
  IF n = 0
  THEN {<<>>}
  ELSE LET shorter == Snapshots(n - 1)
           longest == {q \in shorter : Len(q) = n - 1}
           fresh(q) == {x \in QueryRecords : \A i \in DOMAIN q : q[i].id # x.id}
       IN  shorter \cup UNION {{Append(q, r) : r \in fresh(q)} : q \in longest}

\* config.targetLatency: 400, 200 and 150 ms are 30, 60 and 80 words a minute
Targets == {RInt(150), RInt(200), RInt(400)}

\* the latencies of the record a score is compared with
OtherLatencies == {RInt(100), RInt(250), <<489, 2>>}

InitQuery ==
  /\ EngineNew
  /\ pstat = createInitialStat(<<"e">>)
  /\ pstatIn = pstat
  /\ pstatObs = NoObservation
  /\ allStats \in Snapshots(MaxStats)
  /\ targetLatency \in Targets
  /\ lastQuery = NoQuery
  /\ steady = 0

\* the functions are pure, so a behaviour is one call on a snapshot
Fresh == lastQuery = NoQuery

\* a call of a function of the snapshot changes nothing but the log
Queried == UNCHANGED <<engineVars, now, lastCall, steady, pstat, pstatIn, pstatObs,
                       allStats, targetLatency, sessionVars>>

\* isPatternMastered(p, targetLatency) for a record p of the snapshot
Mastered ==
  /\ Fresh
  /\ \E i \in DOMAIN allStats :
        lastQuery' = [op |-> "isPatternMastered", stat |-> allStats[i],
                      result |-> isPatternMastered(allStats[i], targetLatency)]
  /\ Queried

\* calculateMasteryScore(stat, targetLatency) for a record stat of the
\* snapshot, and for the record that differs from it in ewmaLatency only
Score ==
  /\ Fresh
  /\ \E i \in DOMAIN allStats, m \in OtherLatencies :
        LET other == [allStats[i] EXCEPT !.ewmaLatency = m]
        IN  lastQuery' = [op |-> "calculateMasteryScore", stat |-> allStats[i],
                          result |-> calculateMasteryScore(allStats[i], targetLatency),
                          other |-> other,
                          otherResult |-> calculateMasteryScore(other, targetLatency)]
  /\ Queried

\* selectNextSequentialPattern(allStats, stage, targetLatency)
Select ==
  /\ Fresh
  /\ \E stage \in Stages :
        lastQuery' = [op |-> "selectNextSequentialPattern", stage |-> stage,
                      result |-> selectNextSequentialPattern(allStats, stage,
                                                             targetLatency)]
  /\ Queried

LearningModes == {"sequential", "reinforced"}

\* the ids of the records of a list
RECURSIVE idsOf(_)
idsOf(s) == IF s = <<>> THEN {} ELSE {Head(s).id} \cup idsOf(Tail(s))

\* the selection generateMoreWords makes for a mode and a stage: topPatterns
\* and progression.isStageFinished.  In reinforced mode selectTopPatterns
\* ranks the records of the stage by a score computed from a random sample
\* of each record's latency distribution (Thompson sampling), so top is any
\* record of the stage
selectPatterns(stats, mode, stage, target, top) ==
  LET stageStats == filterStage(stats, stage)
      p == selectNextSequentialPattern(stats, stage, target)
  IN  IF mode = "sequential"
      THEN IF p # Null
           THEN [topPatterns |-> <<p>>, isStageFinished |-> FALSE]
           ELSE [topPatterns |-> <<>>, isStageFinished |-> TRUE]
      ELSE [topPatterns |-> IF stageStats = <<>> THEN <<>> ELSE <<top>>,
            isStageFinished |-> FALSE]

\* generateMoreWords() of an engine whose store is the snapshot, in a mode
\* and a stage: the selection, and a batch of BATCH_SIZE words appended to
\* state.words (the words themselves are generateBatch's, see SpecBatch)
MoreWords ==
  /\ Fresh
  /\ \E mode \in LearningModes, stage \in Stages :
        \E top \in idsOf(filterStage(allStats, stage)) \cup {Null} :
           LET chosen == selectPatterns(allStats, mode, stage, targetLatency, top)
           IN  /\ (top = Null) = (mode = "sequential" \/ filterStage(allStats, stage) = <<>>)
               /\ lastQuery' = [op |-> "generateMoreWords", mode |-> mode,
                                stage |-> stage,
                                topPatterns |-> chosen.topPatterns,
                                isStageFinished |-> chosen.isStageFinished,
                                appended |-> BATCH_SIZE]
  /\ Queried

\* selectTargetPattern() in a mode and a stage, for a value of Math.random()
Target ==
  /\ Fresh
  /\ \E mode \in LearningModes, stage \in Stages, k \in 0..(RandomSteps - 1) :
        LET stats == filterStage(allStats, stage)
            random == Rat(k, RandomSteps)
        IN  /\ mode = "sequential" => k = 0
            /\ lastQuery' = [op |-> "selectTargetPattern", mode |-> mode,
                             stage |-> stage, random |-> random,
                             candidates |-> scored(stats, targetLatency),
                             weighted |-> weigh(scored(stats, targetLatency)),
                             result |-> selectTargetPattern(stats, mode,
                                                            targetLatency, random)]
  /\ Queried

\* totalPossiblePatterns: no pattern, a handful, and the 26 letters
StageSizes == {0, 1, 2, 3, 7, 26}

\* calculateStageMastery(allStats, stage, targetLatency, total)
StageMastery ==
  /\ Fresh
  /\ \E stage \in Stages, total \in StageSizes :
        lastQuery' = [op |-> "calculateStageMastery", stage |-> stage,
                      total |-> total,
                      result |-> calculateStageMastery(allStats, stage,
                                                       targetLatency, total)]
  /\ Queried

NextQuery == Mastered \/ Score \/ Select \/ MoreWords \/ Target \/ StageMastery

SpecQuery == InitQuery /\ [][NextQuery]_vars

----------------------------------------------------------------------------
(* The session: the engine with its timer, its stage controls and the saves  *)
(* it hands to storage (unnamed/part_006, packages/storage/src/db.ts).  The  *)
(* timer callback and the settling of a save are handler calls of their own, *)
(* which happen between two keystrokes and take no time.                      *)

\* the word the generator draws in a session
SessionPool == { <<"d", "e", "e", "d">> }

\* the keys of a session: the two letters of that word, each the expected
\* key at some places of the word and a slip at the others
SessionKeys == {"d", "e"}

\* setStage with a slip: the word under the cursor is replaced even when
\* some of it is typed
setStage_replacing(prog, stage, pool) ==
  IF prog.isUnlocked[stage]
  THEN /\ progression' = [prog EXCEPT !.currentStage = stage]
       /\ IF isLoaded THEN generateMoreWords(activeWordIndex)
          ELSE wordsLength' = activeWordIndex
       /\ targetWord' \in (IF isLoaded THEN pool ELSE {<<>>})
  ELSE /\ progression' = prog
       /\ UNCHANGED <<wordsLength, targetWord>>

\* setStage with a slip: a locked stage is accepted
setStage_anyStage(prog, stage, pool) ==
  /\ progression' = [prog EXCEPT !.currentStage = stage]
  /\ LET kept == IF activeCharIndex = 0 THEN activeWordIndex
                 ELSE activeWordIndex + 1
     IN  IF isLoaded THEN generateMoreWords(kept) ELSE wordsLength' = kept
  /\ IF activeCharIndex = 0
     THEN targetWord' \in (IF isLoaded THEN pool ELSE {<<>>})
     ELSE UNCHANGED targetWord

\* setStage(stage) on the progression prog: a locked stage is refused; for an
\* unlocked one the words after the cursor are dropped, the word under the
\* cursor too when nothing of it is typed, and a batch is generated, which
\* generateMoreWords does once init() has made the generator; pool is the
\* words the generator draws from
setStage(prog, stage, pool) ==
  IF prog.isUnlocked[stage]
  THEN /\ progression' = [prog EXCEPT !.currentStage = stage]
       /\ LET kept == IF activeCharIndex = 0 THEN activeWordIndex
                      ELSE activeWordIndex + 1
          IN  IF isLoaded THEN generateMoreWords(kept) ELSE wordsLength' = kept
       /\ IF activeCharIndex = 0
          THEN targetWord' \in (IF isLoaded THEN pool ELSE {<<>>})
          ELSE UNCHANGED targetWord
  ELSE /\ progression' = prog
       /\ UNCHANGED <<wordsLength, targetWord>>

\* resetWords(): the words are dropped, the cursor, the typed buffer, the
\* error flag and the batch counters are reset, and a batch is generated,
\* which generateMoreWords does once init() has made the generator
resetWords(pool) ==
  /\ activeWordIndex' = 0
  /\ activeCharIndex' = 0
  /\ typedSoFar' = <<>>
  /\ isError' = FALSE
  /\ batchStartTime' = 0
  /\ batchCorrectChars' = 0
  /\ batchTotalKeystrokes' = 0
  /\ isBatchStarted' = FALSE
  /\ IF isLoaded THEN generateMoreWords(0) ELSE wordsLength' = 0
  /\ targetWord' \in (IF isLoaded THEN pool ELSE {<<>>})

\* setMode(mode)
setMode(mode, pool) ==
  /\ progression' = [progression EXCEPT !.learningMode = mode]
  /\ resetWords(pool)

\* setTargetWpm(targetWpm): the target latency, the gate, and the downgrade of a
\* current stage that is locked now
setTargetWpm(targetWpm, pool) ==
  LET target == RInt(RoundDiv(60000, targetWpm * 5))
      checked == checkProgression(progression, valuesOf(patternStats), target, isLoaded)
  IN  /\ targetLatency' = target
      /\ IF ~checked.isUnlocked[checked.currentStage]
         THEN setStage(checked, IF checked.isUnlocked.bigram THEN "bigram" ELSE "unigram",
                       pool)
         ELSE /\ progression' = checked
              /\ UNCHANGED <<wordsLength, targetWord>>

\* saveDirtyStats with a slip: the whole store is handed over
saveDirtyStats_everything(stats, dirty, pending) ==
  IF dirty = {}
  THEN [dirty |-> dirty, saves |-> pending]
  ELSE [dirty |-> {}, saves |-> Append(pending, {stats[id] : id \in DOMAIN stats})]

\* saveDirtyStats() up to its await: nothing when no id is dirty, else the
\* records of the dirty ids are collected, the dirty set is cleared and the
\* batch is handed to storage.savePatternStats, whose promise is pending
saveDirtyStats(stats, dirty, pending) ==
  IF dirty = {}
  THEN [dirty |-> dirty, saves |-> pending]
  ELSE [dirty |-> {},
        saves |-> Append(pending, {stats[id] : id \in dirty \cap DOMAIN stats})]

\* what storage was last given, after the batches of pending that follow the
\* first handedBefore of them were handed over
RECURSIVE handOver(_, _, _)
handOver(given, pending, handedBefore) ==
  IF Len(pending) <= handedBefore THEN given
  ELSE LET batch == pending[handedBefore + 1]
           ids == {r.id : r \in batch}
       IN  handOver([id \in (DOMAIN given) \cup ids |->
                       IF id \in ids THEN CHOOSE r \in batch : r.id = id
                       ELSE given[id]],
                    pending, handedBefore + 1)

\* the callback of the auto-save timer: saveDirtyStats(), then
\* updateSessionStats(), which evaluates the gate (sessionStart is set
\* before the timer is)
onSaveInterval ==
  LET flushed == saveDirtyStats(patternStats, dirtyStats, saves)
  IN  /\ dirtyStats' = flushed.dirty
      /\ saves' = flushed.saves
      /\ handed' = handOver(handed, flushed.saves, Len(saves))
      /\ progression' = checkProgression(progression, valuesOf(patternStats),
                                         targetLatency, isLoaded)

\* stop(): the timer is cleared
stop == saveInterval' = FALSE

\* a record the store holds after practice at a steady 180 ms
practised(id) == storedStat(id, 12, 180, 300, 13, 1)

\* the ids whose records the store of a returning user holds: what typing
\* the words deed and he' of the corpus leaves in the store
PractisedIds ==
  { <<"e">>, <<"d">>, <<"'">>,
    <<"d", "e">>, <<"e", "e">>, <<"e", "d">>, <<"h", "e">>, <<"e", "'">>,
    <<"same_finger:", "d", "e">>, <<"same_finger:", "e", "d">>,
    <<"d", "e", "e">>, <<"e", "e", "d">>, <<"h", "e", "'">> }

\* what storage.loadAllPatternStats() yields: nothing on a new install, or
\* the records of a returning user
StoredStats == { <<>>, [id \in PractisedIds |-> practised(id)] }

\* what storage.loadConfig() yields for targetLatency
StoredTargets == {RInt(200)}

\* the values of the target slider
TargetWpms == {30, 60}

\* milliseconds between a keystroke of the session and the handler call
\* before it
SessionTicks == {150, 2000}

InitSession == Init

\* init()
SessionLoad ==
  \E w \in SessionPool, loadedStats \in StoredStats, loadedTarget \in StoredTargets :
     EngineLoad(w, loadedStats, loadedTarget)

\* a keystroke, once init() is over (a keystroke before that is EarlyKey)
SessionKey ==
  /\ isLoaded
  /\ totalKeystrokes < MaxSessionKeys
  /\ \E key \in SessionKeys, dt \in SessionTicks : HandleKey(key, dt, SessionPool)
  /\ UNCHANGED <<statVars, steady, sessionVars>>

\* the auto-save timer fires
Tick ==
  /\ saveInterval
  /\ dirtyStats = {} \/ Len(saves) < MaxPending
  /\ onSaveInterval
  /\ lastCall' = [op |-> "onSaveInterval", dirty |-> dirtyStats, stats |-> patternStats,
                  pending |-> saves]
  /\ UNCHANGED <<isLoaded, wordsLength, targetWord, activeWordIndex, activeCharIndex,
                 typedSoFar, isError, wpm, accuracy, patternStats, lastKeyTime,
                 latencyInvalidated, totalKeystrokes, correctKeystrokes, batchStartTime,
                 batchCorrectChars, batchTotalKeystrokes, isBatchStarted, now, statVars,
                 steady, saveInterval>>

\* the settling of a save with a slip: the dirty set is cleared when the
\* save has settled, not when the batch is collected
Settle_clears ==
  /\ saves # <<>>
  /\ saves' = Tail(saves)
  /\ dirtyStats' = {}
  /\ \E outcome \in {"complete", "error"} :
        lastCall' = [op |-> "settle", outcome |-> outcome, batch |-> Head(saves)]
  /\ UNCHANGED <<isLoaded, wordsLength, targetWord, activeWordIndex, activeCharIndex,
                 typedSoFar, isError, wpm, accuracy, patternStats, lastKeyTime,
                 latencyInvalidated, totalKeystrokes, correctKeystrokes, batchStartTime,
                 batchCorrectChars, batchTotalKeystrokes, isBatchStarted, now, statVars,
                 steady, progression, saveInterval, handed>>

\* the settling of a save with a slip: a failed save puts the records of its
\* batch back into the store
Settle_restores ==
  /\ saves # <<>>
  /\ saves' = Tail(saves)
  /\ \E outcome \in {"complete", "error"} :
        /\ lastCall' = [op |-> "settle", outcome |-> outcome, batch |-> Head(saves)]
        /\ patternStats' = IF outcome = "complete" THEN patternStats
                           ELSE [id \in DOMAIN patternStats |->
                                   IF \E r \in Head(saves) : r.id = id
                                   THEN CHOOSE r \in Head(saves) : r.id = id
                                   ELSE patternStats[id]]
  /\ UNCHANGED <<isLoaded, wordsLength, targetWord, activeWordIndex, activeCharIndex,
                 typedSoFar, isError, wpm, accuracy, dirtyStats, lastKeyTime,
                 latencyInvalidated, totalKeystrokes, correctKeystrokes, batchStartTime,
                 batchCorrectChars, batchTotalKeystrokes, isBatchStarted, now, statVars,
                 steady, progression, saveInterval, handed>>

\* the oldest save in flight settles: its transaction completes, or fails
\* and the promise is rejected
Settle ==
  /\ saves # <<>>
  /\ saves' = Tail(saves)
  /\ \E outcome \in {"complete", "error"} :
        lastCall' = [op |-> "settle", outcome |-> outcome, batch |-> Head(saves)]
  /\ UNCHANGED <<engineVars, now, statVars, steady, progression, saveInterval, handed>>

\* the target slider is moved to one of values; pool is the words the
\* generator draws from
targetMoved(values, pool) ==
  /\ \E targetWpm \in values :
        /\ setTargetWpm(targetWpm, pool)
        /\ lastCall' = [op |-> "setTargetWpm", targetWpm |-> targetWpm,
                        before |-> progression]
  /\ UNCHANGED <<isLoaded, activeWordIndex, activeCharIndex, typedSoFar, isError, wpm,
                 accuracy, patternStats, dirtyStats, lastKeyTime, latencyInvalidated,
                 totalKeystrokes, correctKeystrokes, batchStartTime, batchCorrectChars,
                 batchTotalKeystrokes, isBatchStarted, now, pstat, pstatIn, pstatObs,
                 allStats, lastQuery, steady, saveInterval, saves, handed>>

SetTargetWpm == targetMoved(TargetWpms, SessionPool)

\* a stage is picked in the stage selector
stagePicked(pool) ==
  /\ \E stage \in Stages :
        /\ setStage(progression, stage, pool)
        /\ lastCall' = [op |-> "setStage", stage |-> stage, before |-> progression]
  /\ UNCHANGED <<isLoaded, activeWordIndex, activeCharIndex, typedSoFar, isError, wpm,
                 accuracy, patternStats, dirtyStats, lastKeyTime, latencyInvalidated,
                 totalKeystrokes, correctKeystrokes, batchStartTime, batchCorrectChars,
                 batchTotalKeystrokes, isBatchStarted, now, statVars, steady,
                 saveInterval, saves, handed>>

SetStage == stagePicked(SessionPool)

\* the learning mode is switched
modeSwitched(pool) ==
  /\ \E mode \in LearningModes :
        /\ setMode(mode, pool)
        /\ lastCall' = [op |-> "setMode", mode |-> mode, before |-> progression]
  /\ UNCHANGED <<isLoaded, wpm, accuracy, patternStats, dirtyStats, lastKeyTime,
                 latencyInvalidated, totalKeystrokes, correctKeystrokes, now, statVars,
                 steady, saveInterval, saves, handed>>

SetMode == modeSwitched(SessionPool)

\* the session is torn down
Stop ==
  /\ stop
  /\ lastCall' = [op |-> "stop", dirty |-> dirtyStats, pending |-> saves]
  /\ UNCHANGED <<engineVars, now, statVars, steady, progression, saves, handed>>

NextSession ==
  \/ SessionLoad \/ SessionKey \/ Tick \/ Settle
  \/ SetTargetWpm \/ SetStage \/ Stop

SpecSession == InitSession /\ [][NextSession]_vars

\* what storage yields to a user who has typed the beginning of deed before:
\* nothing on a new install, or the records of the pair de
SavedStats ==
  { <<>>,
    [id \in {<<"e">>, <<"d", "e">>, <<"same_finger:", "d", "e">>} |-> practised(id)] }

\* init()
SaveLoad ==
  \E w \in SessionPool, loadedStats \in SavedStats, loadedTarget \in StoredTargets :
     EngineLoad(w, loadedStats, loadedTarget)

\* the session without its controls: typing, the timer, the saves and stop()
NextSave == SaveLoad \/ SessionKey \/ Tick \/ Settle \/ Stop

SpecSave == InitSession /\ [][NextSave]_vars

\* that session when the timer and storage do their part: a timer that is
\* set fires (setInterval, part_006 lines 114-118), and a transaction that
\* was started completes or fails (db.ts lines 41-52)
FairSave == SpecSave /\ WF_vars(Tick) /\ WF_vars(Settle)

\* C25: in every state of the engine, with the stage sizes of
\* WordIndexer.getPatternCounts(), the mastery of each of the three stages is
\* an integer from 0 to 100.
C25_StageMasteryInRange ==
  \A stage \in Stages : progression.mastery[stage] \in 0..100

\* the last handler call evaluated the gate: init(), setTargetWpm() or the
\* timer callback
GateEvaluated == lastCall.op \in {"init", "setTargetWpm", "onSaveInterval"}

Updated ==
  {id \in DOMAIN patternStats' :
     id \notin DOMAIN patternStats \/ patternStats'[id] # patternStats[id]}

\* the ids of the records of a batch
BatchIds(batch) == {r.id : r \in batch}

sessionMemory ==
  <<patternStats, isLoaded, wordsLength, targetWord, activeWordIndex, activeCharIndex,
    typedSoFar, isError>>

\* C29: whether a save completes or fails, and whenever it does, the pattern
\* records and the input state stay as they are; and a keystroke that arrives
\* while a save is in flight is handled to the end, as any other keystroke,
\* and leaves the saves in flight alone.
C29_MemoryApartFromSaves ==
  [][ /\ lastCall'.op = "settle" => UNCHANGED sessionMemory
      /\ (lastCall'.op = "handleKey" /\ isLoaded)
         => /\ totalKeystrokes' = totalKeystrokes + 1
            /\ saves' = saves ]_vars

\* a save has failed after a keystroke that was handled while it was in
\* flight: the store holds the record that keystroke left, which is not the
\* one of the failed batch
C29_Witness ==
  /\ lastCall.op = "settle"
  /\ lastCall.outcome = "error"
  /\ \E r \in lastCall.batch :
        /\ r.id \in dirtyStats
        /\ patternStats[r.id] # r
        /\ patternStats[r.id].n = r.n + 1

\* storage was last given, for id, the record the store holds now
Handed(id) == id \in DOMAIN handed /\ handed[id] = patternStats[id]

\* every record is to be handed over by the next flush or is what storage
\* was last given
DirtyOrHanded == \A id \in DOMAIN patternStats : id \in dirtyStats \/ Handed(id)

AllHanded == \A id \in DOMAIN patternStats : Handed(id)

\* C39: no update is lost to a save in flight: at any moment every record of
\* the store either is the one storage was last given for its id or has its
\* id in the dirty set, to be handed over by a later flush; and in a session
\* whose timer stays set, from some point on (typing has stopped and the
\* timer has fired) storage has been given the current record of every id.
C39_NoLostUpdate ==
  /\ []DirtyOrHanded
  /\ (<>[]saveInterval) => <>[]AllHanded

\* a record was updated while a save with its older value was in flight;
\* that save has settled, and the flush after it has handed the newer value
\* over
C39_Witness ==
  /\ lastCall.op = "onSaveInterval"
  /\ lastCall.pending = <<>>
  /\ lastCall.dirty # {}
  /\ dirtyStats = {}
  /\ AllHanded
  /\ \E id \in lastCall.dirty : patternStats[id].n = 2

\* C30: when stop() returns, every record that is still dirty has been
\* handed to storage.savePatternStats: its current record is in a batch
\* handed over by then.
C30_StopFlushes ==
  lastCall.op = "stop"
    => \A id \in dirtyStats : \E i \in DOMAIN saves : patternStats[id] \in saves[i]

\* The store under every operation of the engine: the session with the mode
\* control, at an even typing pace

\* milliseconds between a keystroke and the handler call before it
StoreTick == 150

InitStore == Init

\* a keystroke, once init() is over
StoreKey ==
  /\ isLoaded
  /\ totalKeystrokes < MaxSessionKeys
  /\ \E key \in SessionKeys : HandleKey(key, StoreTick, SessionPool)
  /\ UNCHANGED <<statVars, steady, sessionVars>>

NextStore ==
  \/ SessionLoad \/ StoreKey \/ Tick \/ Settle
  \/ SetTargetWpm \/ SetStage \/ SetMode \/ Stop

SpecStore == InitStore /\ [][NextStore]_vars

\* the record of id after one accepted keystroke of the given latency, and
\* after one mismatch, when there was no record before: the defaults n = 0,
\* ewmaLatency = 300, ewmaVariance = 1000, errorAlpha = errorBeta = 1,
\* trend = 0 with that one observation applied
FirstLatency(id, latency, at) ==
  LET delta == RSub(RInt(latency), RInt(300))
  IN  [id |-> id, n |-> 1, lastSeen |-> at, errorAlpha |-> 2, errorBeta |-> 1,
       ewmaLatency |-> RAdd(RInt(300), RMul(Rat(15, 100), delta)),
       ewmaVariance |-> RAdd(RMul(Rat(85, 100), RInt(1000)),
                             RMul(Rat(15, 100), RMul(delta, delta))),
       trend |-> RMul(Rat(15, 100), delta)]

FirstError(id, at) ==
  [id |-> id, n |-> 1, lastSeen |-> at, errorAlpha |-> 1, errorBeta |-> 2,
   ewmaLatency |-> RInt(300), ewmaVariance |-> RInt(1000), trend |-> RInt(0)]

\* C31: no step of the session (keystroke, setStage, setMode, setTargetWpm,
\* timer flush, settling save, stop, init) removes a record; the record under
\* key k has id k; and a record that a keystroke inserts is the default
\* record of its id with that keystroke's observation applied.
C31_InsertedOnceNeverRemoved ==
  [][ /\ DOMAIN patternStats \subseteq DOMAIN patternStats'
      /\ \A k \in DOMAIN patternStats' : patternStats'[k].id = k
      /\ \A k \in (DOMAIN patternStats') \ (DOMAIN patternStats) :
            \/ lastCall'.op = "init"
            \/ /\ lastCall'.op = "handleKey"
               /\ patternStats'[k] \in {FirstLatency(k, lastCall'.delta, now'),
                                        FirstError(k, now')} ]_vars

\* the records an accepted keystroke and a mismatch inserted are in the store
\* after the words were reset by setMode
C31_Witness ==
  /\ lastCall.op = "setMode"
  /\ <<"d", "e">> \in DOMAIN patternStats
  /\ patternStats[<<"d", "e">>] = FirstLatency(<<"d", "e">>, 150, StartTime + 300)
  /\ <<"e", "e">> \in DOMAIN patternStats
  /\ patternStats[<<"e", "e">>] = FirstError(<<"e", "e">>, StartTime + 450)

----------------------------------------------------------------------------
(* The cursor: keystrokes that finish words, with the stage, mode and target *)
(* controls between them                                                      *)

\* keystrokes handled in one behaviour of SpecCursor
MaxCursorKeys == 5

\* the words the generator draws: a one-letter and a two-letter word
CursorPool == { <<"a">>, <<"d", "e">> }

\* the keys: the letters of those words and the delimiter
CursorKeys == {"a", "d", "e", " "}

\* milliseconds between a keystroke and the handler call before it
CursorTick == 150

InitCursor == Init

\* init() of a new install
CursorLoad == \E w \in CursorPool : EngineInit(w)

\* a keystroke, once init() is over
CursorKey ==
  /\ isLoaded
  /\ totalKeystrokes < MaxCursorKeys
  /\ \E key \in CursorKeys : HandleKey(key, CursorTick, CursorPool)
  /\ UNCHANGED <<statVars, steady, sessionVars>>

CursorStage == stagePicked(CursorPool)

CursorMode == modeSwitched(CursorPool)

CursorTarget == targetMoved(TargetWpms, CursorPool)

NextCursor == CursorLoad \/ CursorKey \/ CursorStage \/ CursorMode \/ CursorTarget

SpecCursor == InitCursor /\ [][NextCursor]_vars

\* C37: whenever the engine is loaded, after any keystrokes, setStage, setMode
\* and setTargetWpm calls, the cursor is on a word of state.words, the
\* character index is between 0 and the length of that word, and the typed
\* buffer is the first activeCharIndex characters of that word.
C37_CursorInWord ==
  isLoaded => /\ activeWordIndex < wordsLength
              /\ activeCharIndex \in 0..Len(targetWord)
              /\ typedSoFar = SubSeq(targetWord, 1, activeCharIndex)

\* a stage was picked while the second word was half typed: the word and
\* what is typed of it are kept, and a batch follows the word
C37_Witness ==
  /\ lastCall.op = "setStage"
  /\ activeWordIndex = 1
  /\ targetWord = <<"d", "e">>
  /\ typedSoFar = <<"d">>
  /\ wordsLength = 2 + BATCH_SIZE

\* the mode was switched after a word was finished: the cursor is back on
\* the first word of a fresh batch
C37_WitnessReset ==
  /\ lastCall.op = "setMode"
  /\ totalKeystrokes >= 2
  /\ activeWordIndex = 0
  /\ activeCharIndex = 0
  /\ wordsLength = BATCH_SIZE

----------------------------------------------------------------------------
(* The target across a reload: setTargetWpm saves the config, and init() of  *)
(* the next page load reads it back                                          *)

\* the words-per-minute figures the target is set to
TargetWpmInputs == MinTargetWpm..MaxTargetWpm

InitTarget == Init

\* init() of a new install
TargetLoad == \E w \in SessionPool : EngineInit(w)

\* the target slider is moved
Slide ==
  /\ Fresh
  /\ targetMoved(TargetWpmInputs, SessionPool)

\* the page is loaded again after setTargetWpm has saved the config (storage
\* is open once init() is over): what init() of the new engine loads, and
\* what it sets state.meta.targetWpm to
Reload ==
  /\ Fresh
  /\ isLoaded
  /\ lastCall.op = "setTargetWpm"
  /\ lastQuery' = [op |-> "init", loadedConfig |-> targetLatency,
                   targetWpm |-> loadedTargetWpm(targetLatency)]
  /\ Queried

NextTarget == TargetLoad \/ Slide \/ Reload

SpecTarget == InitTarget /\ [][NextTarget]_vars

\* C40: the target set with setTargetWpm(w) survives a save and reload:
\* init() of the next page load sets state.meta.targetWpm to w.
C40_TargetSurvivesReload ==
  (lastQuery.op = "init" /\ lastCall.op = "setTargetWpm")
    => lastQuery.targetWpm = lastCall.targetWpm

----------------------------------------------------------------------------
(* The gate on its own: checkProgression's assignments for a store, a target *)
(* latency and stage sizes, and for the store with one more letter learned    *)

Letters ==
  << "a", "b", "c", "d", "e", "f", "g", "h", "i", "j", "k", "l", "m",
     "n", "o", "p", "q", "r", "s", "t", "u", "v", "w", "x", "y", "z" >>

\* a store with records for the first u letters and for the first b pairs of
\* neighbouring letters, all of them practised
learnedStore(u, b) ==
  [i \in 1..u |-> practised(<<Letters[i]>>)]
    \o [i \in 1..b |-> practised(<<Letters[i], Letters[i + 1]>>)]

\* the stage sizes: the ones checkProgression falls back on, and those of
\* word lists with fewer letters and pairs
GateCounts ==
  [unigram : {0, 25, fallbackCounts.unigram},
   bigram : {19, 20, fallbackCounts.bigram},
   trigram : {fallbackCounts.trigram}]

InitUnlock ==
  /\ EngineNew
  /\ pstat = createInitialStat(<<"e">>)
  /\ pstatIn = pstat
  /\ pstatObs = NoObservation
  /\ \E u \in 0..MaxUnigrams, b \in 0..MaxBigrams : allStats = learnedStore(u, b)
  /\ targetLatency \in Targets
  /\ lastQuery = NoQuery
  /\ steady = 0

\* the gate for the store, and for the store after the next letter is
\* practised
Gate ==
  /\ Fresh
  /\ \E counts \in GateCounts :
        LET learned == Cardinality({i \in DOMAIN allStats : Len(allStats[i].id) = 1})
            more == <<practised(<<Letters[learned + 1]>>)>> \o allStats
        IN  lastQuery' = [op |-> "checkProgression", counts |-> counts,
                          result |-> gateFor(progression, allStats, targetLatency,
                                             counts),
                          next |-> gateFor(progression, more, targetLatency, counts)]
  /\ Queried

\* the distinct characters of the words of the corpus
corpusCharacters == UNION {Range(wordList[i]) : i \in DOMAIN wordList}

\* the unigram record of a character typed three times at the target latency
learnedAt(char, target) ==
  [storedStat(<<char>>, 3, 0, 300, 4, 1) EXCEPT !.ewmaLatency = target]

\* a list of the elements of a set, in some order
RECURSIVE listOf(_)
listOf(set) ==
  IF set = {} THEN <<>>
  ELSE LET x == CHOOSE y \in set : TRUE IN <<x>> \o listOf(set \ {x})

\* checkProgression() of the engine init() has given its indexer, for a store
\* that holds, besides the records of the snapshot, a learned unigram record
\* for every character of the corpus
CorpusGate ==
  /\ Fresh
  /\ LET unigrams == listOf({learnedAt(c, targetLatency) : c \in corpusCharacters})
         others == SelectSeq(allStats, LAMBDA r : Len(r.id) # 1)
     IN  lastQuery' = [op |-> "corpusGate", counts |-> getPatternCounts,
                       stats |-> unigrams \o others,
                       result |-> checkProgression(progression, unigrams \o others,
                                                   targetLatency, TRUE)]
  /\ Queried

NextUnlock == Gate \/ CorpusGate

SpecUnlock == InitUnlock /\ [][NextUnlock]_vars

GateAsked == lastQuery.op = "checkProgression"

\* the unlock rule for a state.progression
UnlockRule(prog) ==
  /\ prog.isUnlocked.unigram
  /\ prog.isUnlocked.bigram <=> prog.mastery.unigram >= 85
  /\ prog.isUnlocked.trigram <=> (prog.mastery.unigram >= 85 /\ prog.mastery.bigram >= 85)

\* C26: after every gate evaluation the unigram stage is unlocked, the bigram
\* stage is unlocked exactly when unigram mastery is at least 85, and the
\* trigram stage exactly when unigram and bigram mastery are both at least
\* 85; so when unigram mastery rises from 84 to 85 or more, the next
\* evaluation unlocks the bigram stage, and the trigram stage stays locked
\* while bigram mastery is below 85.
C26_UnlockRule ==
  GateAsked => UnlockRule(lastQuery.result) /\ UnlockRule(lastQuery.next)

\* unigram mastery 84 with the bigram stage locked, and at the next
\* evaluation, one letter later, unigram mastery above 84 with the bigram
\* stage unlocked and the trigram stage locked at a bigram mastery of 84
C26_Witness ==
  /\ GateAsked
  /\ lastQuery.result.mastery.unigram = 84
  /\ ~lastQuery.result.isUnlocked.bigram
  /\ lastQuery.next.mastery.unigram >= 85
  /\ lastQuery.next.isUnlocked.bigram
  /\ lastQuery.next.mastery.bigram = 84
  /\ ~lastQuery.next.isUnlocked.trigram

\* unigram and bigram mastery of exactly 85: every stage is unlocked
C26_WitnessAt85 ==
  /\ GateAsked
  /\ lastQuery.result.mastery.unigram = 85
  /\ lastQuery.result.mastery.bigram = 85
  /\ lastQuery.result.isUnlocked.trigram

\* C34: with the stage sizes of getPatternCounts(), once every distinct
\* character of the corpus has a unigram record with n >= 3 and
\* ewmaLatency <= target, the gate evaluation unlocks the bigram stage.
C34_BigramCanUnlock ==
  (/\ lastQuery.op = "corpusGate"
   /\ \A c \in corpusCharacters :
         \E i \in DOMAIN lastQuery.stats :
            /\ lastQuery.stats[i].id = <<c>>
            /\ lastQuery.stats[i].n >= 3
            /\ RLe(lastQuery.stats[i].ewmaLatency, targetLatency))
    => lastQuery.result.isUnlocked.bigram

----------------------------------------------------------------------------
(* isPatternMastered on the records the engine makes: the records that      *)
(* updateStat builds from createInitialStat, by a number of accepted         *)
(* keystrokes and a number of mismatches                                     *)

\* the counts of such a record: n rises with each observation, errorAlpha
\* with each accepted keystroke and errorBeta with each mismatch, from 0, 1, 1
builtStat(id, successes, failures, latency, variance) ==
  storedStat(id, successes + failures, latency, variance, 1 + successes, 1 + failures)

BuiltRecords ==
  { builtStat(<<"e">>, successes, failures, latency, variance) :
      successes \in 0..MaxSuccesses, failures \in 0..MaxFailures,
      latency \in {150, 250}, variance \in {100, 500} }

InitMastered ==
  /\ EngineNew
  /\ pstat = createInitialStat(<<"e">>)
  /\ pstatIn = pstat
  /\ pstatObs = NoObservation
  /\ \E r \in BuiltRecords : allStats = <<r>>
  /\ targetLatency \in Targets
  /\ lastQuery = NoQuery
  /\ steady = 0

NextMastered == Mastered

SpecMastered == InitMastered /\ [][NextMastered]_vars

\* the counts of the record are those of a record built by updateStat
Built(stat) ==
  /\ stat.errorAlpha >= 1
  /\ stat.errorBeta >= 1
  /\ stat.n = stat.errorAlpha + stat.errorBeta - 2

\* C36: a record that the engine has built from createInitialStat by
\* keystrokes is mastered only if its n is above 10.
C36_MasteredOnlyAboveTen ==
  (lastQuery.op = "isPatternMastered" /\ Built(lastQuery.stat) /\ lastQuery.result)
    => lastQuery.stat.n > 10

\* the record with the fewest samples that is mastered: 49 accepted
\* keystrokes and no mismatch, a success rate of 50/51
C36_Witness ==
  /\ lastQuery.op = "isPatternMastered"
  /\ lastQuery.result
  /\ Built(lastQuery.stat)
  /\ lastQuery.stat.n = 49
  /\ lastQuery.stat.errorBeta = 1

\* the same record one keystroke earlier is not mastered: 49/50 is not above
\* 0.98
C36_WitnessBelow ==
  /\ lastQuery.op = "isPatternMastered"
  /\ ~lastQuery.result
  /\ lastQuery.stat = builtStat(<<"e">>, 48, 0, 150, 100)
  /\ targetLatency = RInt(200)

----------------------------------------------------------------------------
(* generateBatch on its own: a batch for a list of top patterns, a history   *)
(* and a batch size                                                          *)

\* the lists generateMoreWords passes: none or one pattern id
TopPatterns == {<<>>} \cup {<<r.id>> : r \in QueryRecords}

InitBatch ==
  /\ EngineNew
  /\ pstat = createInitialStat(<<"e">>)
  /\ pstatIn = pstat
  /\ pstatObs = NoObservation
  /\ NoSnapshot
  /\ steady = 0

\* batch = generateBatch(topPatterns, history, batchSize)
Batch ==
  /\ Fresh
  /\ \E topPatterns \in TopPatterns, history \in SUBSET Range(wordList),
         batchSize \in 0..MaxBatch :
        \E batch \in generateBatch(topPatterns, history, batchSize) :
           lastQuery' = [op |-> "generateBatch", topPatterns |-> topPatterns,
                         history |-> history, batchSize |-> batchSize,
                         batch |-> batch]
  /\ Queried

NextBatch == Batch

SpecBatch == InitBatch /\ [][NextBatch]_vars

\* the last call was generateBatch
BatchAsked == lastQuery.op = "generateBatch"

\* the call had no pattern to focus on, or one without a word in the index
NoFocusWords ==
  \/ lastQuery.topPatterns = <<>>
  \/ getWordsForPattern(lastQuery.topPatterns[1]) = {}

\* C19: when no pattern is selected or the selected pattern has no indexed
\* word, generateBatch returns exactly batchSize words, all of them flow
\* words.
C19_FailsSoft ==
  (BatchAsked /\ NoFocusWords) =>
    /\ Len(lastQuery.batch) = lastQuery.batchSize
    /\ \A i \in DOMAIN lastQuery.batch : lastQuery.batch[i].word \in getFlowWords

\* a full batch for a pattern without words, with every flow word in the
\* history already
C19_Witness ==
  /\ BatchAsked
  /\ lastQuery.topPatterns = << <<"t", "h">> >>
  /\ getFlowWords \subseteq lastQuery.history
  /\ lastQuery.batchSize = MaxBatch
  /\ Len(lastQuery.batch) = MaxBatch
  /\ lastQuery.batch[1].word # lastQuery.batch[2].word

----------------------------------------------------------------------------
(* getPatternScores on its own: two ranking passes over a snapshot *)

\* the records a ranked snapshot is made of: a stable-mastered fast unigram
\* (m), a stable-mastered slow one (s), an accurate and steady unigram just
\* short of the success rate of mastery (k), a unigram that is neither (b),
\* a unigram never observed, and a stable-mastered same-finger pair
RankRecords ==
  { storedStat(<<"m">>, 60, 150, 100, 61, 1),
    storedStat(<<"s">>, 60, 880, 100, 61, 1),
    storedStat(<<"k">>, 48, 140, 4, 49, 1),
    storedStat(<<"b">>, 12, 180, 300, 13, 1),
    createInitialStat(<<"e">>),
    storedStat(<<"same_finger:", "e", "d">>, 60, 220, 100, 61, 1) }

\* the ranked snapshots: up to n records with different ids, in any order
RECURSIVE RankSnapshots(_)
RankSnapshots(n) ==
  IF n = 0
  THEN {<<>>}
  ELSE LET shorter == RankSnapshots(n - 1)
           longest == {q \in shorter : Len(q) = n - 1}
           fresh(q) == {x \in RankRecords : \A i \in DOMAIN q : q[i].id # x.id}
       IN  shorter \cup UNION {{Append(q, r) : r \in fresh(q)} : q \in longest}

\* Date.now() at a ranking pass: one and two minutes after the records were
\* last seen
RankClocks == {64000, 124000}

\* z0 of sampleNormal: the sample lies z0 standard deviations from the mean
NormalDraws == {RInt(-1), RInt(1)}

InitRank ==
  /\ EngineNew
  /\ pstat = createInitialStat(<<"e">>)
  /\ pstatIn = pstat
  /\ pstatObs = NoObservation
  /\ allStats \in RankSnapshots(MaxStats)
  /\ targetLatency \in Targets
  /\ lastQuery = NoQuery
  /\ steady = 0

\* getPatternScores(allStats, config, deterministic, includeTimeBoost), twice:
\* at two clock times and with two random draws
Rank ==
  /\ Fresh
  /\ \E deterministic \in BOOLEAN, includeTimeBoost \in BOOLEAN,
        z1 \in NormalDraws, z2 \in NormalDraws,
        clock1 \in RankClocks, clock2 \in RankClocks :
        lastQuery' = [op |-> "getPatternScores",
                      deterministic |-> deterministic,
                      includeTimeBoost |-> includeTimeBoost,
                      draws |-> <<z1, z2>>, clocks |-> <<clock1, clock2>>,
                      first |-> getPatternScores(allStats, defaultConfig(targetLatency),
                                                 deterministic, includeTimeBoost,
                                                 z1, clock1),
                      second |-> getPatternScores(allStats, defaultConfig(targetLatency),
                                                  deterministic, includeTimeBoost,
                                                  z2, clock2)]
  /\ Queried

NextRank == Rank

SpecRank == InitRank /\ [][NextRank]_vars

\* the last call was a pair of ranking passes
RankAsked == lastQuery.op = "getPatternScores"

\* the passes were deterministic and without recency boost
DisplayRank ==
  /\ RankAsked
  /\ lastQuery.deterministic
  /\ ~lastQuery.includeTimeBoost

\* C21 as stated: in a deterministic pass without recency boost every
\* stable-mastered record with 0 <= ewmaLatency < 2000 has a strictly lower
\* score than every record that is not stable-mastered.
C21_MasteredBelowUnmastered ==
  DisplayRank =>
    \A i \in DOMAIN lastQuery.first, j \in DOMAIN lastQuery.first :
       ( /\ isMasteredStable(lastQuery.first[i].stat)
         /\ ~isMasteredStable(lastQuery.first[j].stat)
         /\ RLe(RInt(0), lastQuery.first[i].stat.ewmaLatency)
         /\ RLt(lastQuery.first[i].stat.ewmaLatency, RInt(2000)) )
       => RLt(lastQuery.first[i].score, lastQuery.first[j].score)

\* the stable-mastered record at position i of the first pass is at most
\* 485 ms slower than the target
NearTarget(i) ==
  RLe(RSub(lastQuery.first[i].stat.ewmaLatency, targetLatency), RInt(485))

\* C21, amended: in a deterministic pass without recency boost every
\* stable-mastered record whose ewmaLatency exceeds the target latency by at
\* most 485 ms has a strictly lower score than every record that is not
\* stable-mastered, and comes after it in the ranking.
C21_NearTargetMasteredBelow ==
  DisplayRank =>
    \A i \in DOMAIN lastQuery.first, j \in DOMAIN lastQuery.first :
       ( /\ isMasteredStable(lastQuery.first[i].stat)
         /\ ~isMasteredStable(lastQuery.first[j].stat)
         /\ NearTarget(i) )
       => /\ RLt(lastQuery.first[i].score, lastQuery.first[j].score)
          /\ i > j

\* a stable-mastered record slower than the target, ranked behind a record
\* that is not stable-mastered and has a smaller gap
C21_Witness ==
  /\ DisplayRank
  /\ Len(lastQuery.first) = 3
  /\ isMasteredStable(lastQuery.first[3].stat)
  /\ NearTarget(3)
  /\ RLt(targetLatency, lastQuery.first[3].stat.ewmaLatency)
  /\ ~isMasteredStable(lastQuery.first[1].stat)
  /\ ~isMasteredStable(lastQuery.first[2].stat)
  /\ RLt(lastQuery.first[2].stat.ewmaLatency, lastQuery.first[3].stat.ewmaLatency)

\* C22: with deterministic = true and includeTimeBoost = false, two ranking
\* passes over the same snapshot, at whatever clock times and with whatever
\* random draws, return the same records with the same scores in the same
\* order.
C22_DisplayRankRepeats ==
  DisplayRank => lastQuery.first = lastQuery.second

\* two display passes over three records, a minute apart and with opposite
\* draws
C22_Witness ==
  /\ DisplayRank
  /\ Len(lastQuery.first) = 3
  /\ lastQuery.clocks[1] # lastQuery.clocks[2]
  /\ lastQuery.draws[1] # lastQuery.draws[2]
  /\ lastQuery.first = lastQuery.second

----------------------------------------------------------------------------
(* Properties of the functions of a snapshot, checked under SpecQuery *)

\* the last call was isPatternMastered
MasteredAsked == lastQuery.op = "isPatternMastered"

\* the last call was calculateMasteryScore
ScoreAsked == lastQuery.op = "calculateMasteryScore"

\* C13 as stated: isPatternMastered is false for every record with n <= 10,
\* whatever its other fields and the target latency.
C13_FewSamplesNotMastered ==
  (MasteredAsked /\ lastQuery.stat.n <= 10) => ~lastQuery.result

\* C14: for every record and positive target latency calculateMasteryScore
\* is an integer in 0..100, and of two records that differ in ewmaLatency
\* only, the one with the lower ewmaLatency never has the lower score.
C14_ScoreRange ==
  ScoreAsked =>
    /\ lastQuery.result \in 0..100
    /\ lastQuery.otherResult \in 0..100
    /\ RLe(lastQuery.other.ewmaLatency, lastQuery.stat.ewmaLatency)
         => lastQuery.otherResult >= lastQuery.result
    /\ RLe(lastQuery.stat.ewmaLatency, lastQuery.other.ewmaLatency)
         => lastQuery.result >= lastQuery.otherResult

\* a record faster than the target, scored next to a slower one: the speed
\* factor of the first is capped, the second scores lower
C14_Witness ==
  /\ ScoreAsked
  /\ lastQuery.stat.n > 0
  /\ RLt(lastQuery.stat.ewmaLatency, targetLatency)
  /\ RLt(targetLatency, lastQuery.other.ewmaLatency)
  /\ 0 < lastQuery.otherResult
  /\ lastQuery.otherResult < lastQuery.result

\* C15 as stated: calculateMasteryScore is 0 for every record with n = 0, a
\* record fresh from createInitialStat in particular, for any target latency.
C15_UnseenScoresZero ==
  (ScoreAsked /\ lastQuery.stat.n = 0) => lastQuery.result = 0

\* C16 as stated: for n > 0 the score is round(100 * min(1, target /
\* max(1, ewmaLatency))), whatever the success and failure counts.
C16_SpeedOnly ==
  (ScoreAsked /\ lastQuery.stat.n > 0) =>
    lastQuery.result =
      RRound(RMul(RInt(100),
                  RMin(RInt(1), RDiv(targetLatency,
                                     RMax(RInt(1), lastQuery.stat.ewmaLatency)))))

\* the last call was selectNextSequentialPattern
SelectAsked == lastQuery.op = "selectNextSequentialPattern"

\* the record at position i of the snapshot is of the stage and not mastered
Candidate(i, stage) ==
  /\ getPatternStage(allStats[i].id) = stage
  /\ ~isPatternMastered(allStats[i], targetLatency)

\* ewmaLatency - targetLatency of the record at position i
Gap(i) == RSub(allStats[i].ewmaLatency, targetLatency)

\* the snapshot holds exactly the unigrams a (250 ms) and b (180 ms)
ExampleAB ==
  /\ Len(allStats) = 2
  /\ {allStats[1], allStats[2]} = {storedStat(<<"a">>, 12, 250, 900, 12, 2),
                                   storedStat(<<"b">>, 12, 180, 300, 13, 1)}
  /\ targetLatency = RInt(200)

\* C17: when the snapshot has a record of the requested stage that is not
\* mastered, selectNextSequentialPattern returns the id of such a record
\* whose gap ewmaLatency - targetLatency no other such record exceeds, and
\* which comes before every other such record of the same gap; for a (250)
\* and b (180) with target 200 it returns a.
C17_WorstGapFirst ==
  SelectAsked =>
    LET candidates == {i \in DOMAIN allStats : Candidate(i, lastQuery.stage)}
    IN  /\ candidates # {} =>
              \E i \in candidates :
                 /\ lastQuery.result = allStats[i].id
                 /\ \A j \in candidates : RLe(Gap(j), Gap(i))
                 /\ \A j \in candidates : j < i => RLt(Gap(j), Gap(i))
        /\ (ExampleAB /\ lastQuery.stage = "unigram") => lastQuery.result = <<"a">>

\* three candidates, the first faster than the other two, which are equally
\* slow: the second is returned
C17_Witness ==
  /\ SelectAsked
  /\ Len(allStats) = 3
  /\ \A i \in 1..3 : Candidate(i, lastQuery.stage)
  /\ RLt(Gap(1), Gap(2))
  /\ Gap(2) = Gap(3)
  /\ lastQuery.result = allStats[2].id

\* the last call was generateMoreWords
MoreWordsAsked == lastQuery.op = "generateMoreWords"

\* the positions of the records of a stage in the snapshot
StageRecords(stage) == {i \in DOMAIN allStats : getPatternStage(allStats[i].id) = stage}

\* C18 as stated: in sequential mode isStageFinished is true after
\* generateMoreWords only when the current stage has at least one record and
\* all its records are mastered; with no record of the stage it stays false.
C18_FinishedOnlyWithData ==
  (MoreWordsAsked /\ lastQuery.mode = "sequential") =>
    /\ lastQuery.isStageFinished =>
          /\ StageRecords(lastQuery.stage) # {}
          /\ \A i \in StageRecords(lastQuery.stage) :
                isPatternMastered(allStats[i], targetLatency)
    /\ StageRecords(lastQuery.stage) = {} => ~lastQuery.isStageFinished

\* the last call was selectTargetPattern, in reinforced mode, for a stage
\* with patterns
WeightedAsked ==
  /\ lastQuery.op = "selectTargetPattern"
  /\ lastQuery.mode = "reinforced"
  /\ lastQuery.candidates # <<>>

\* the values r = random * total can take in [0, total), up to the outcome
\* of the comparisons of weightedRandom: the weights are integers, so r
\* matters only through the multiple of one half it is or lies next to
Draws(total) == {Rat(k, 2 * total) : k \in 0..(2 * total - 1)}

StageMasteryAsked == lastQuery.op = "calculateStageMastery"

\* the records the claim counts, by their place in the snapshot
Learned(stage) ==
  {i \in DOMAIN allStats : /\ getPatternStage(allStats[i].id) = stage
                           /\ allStats[i].n >= 3
                           /\ RLe(allStats[i].ewmaLatency, targetLatency)}

C24_CountsLearnedOfStage ==
  (StageMasteryAsked /\ lastQuery.total > 0)
    => lastQuery.result
         = RRound(Rat(100 * Cardinality(Learned(lastQuery.stage)), lastQuery.total))

\* a stage with a learned record, a fast record of fewer than 3 samples and a
\* learned record of another stage: one record of three counts
C24_Witness ==
  /\ StageMasteryAsked
  /\ lastQuery.stage = "unigram"
  /\ lastQuery.total = 7
  /\ lastQuery.result = 14
  /\ Len(allStats) = 3
  /\ \E i \in DOMAIN allStats :
        /\ getPatternStage(allStats[i].id) = "unigram"
        /\ allStats[i].n < 3
        /\ RLe(allStats[i].ewmaLatency, targetLatency)
  /\ \E i \in DOMAIN allStats :
        /\ getPatternStage(allStats[i].id) = "bigram"
        /\ allStats[i].n >= 3
        /\ RLe(allStats[i].ewmaLatency, targetLatency)

----------------------------------------------------------------------------
(* Properties of updatePatternStat, checked under SpecStat *)

\* the last call of updatePatternStat was given an error observation
ErrorObserved == pstatObs.count > 0 /\ pstatObs.isError

\* the last call of updatePatternStat was given a latency
LatencyObserved == pstatObs.count > 0 /\ ~pstatObs.isError

\* C9 as stated: an error observation never changes ewmaLatency, ewmaVariance
\* or trend, and the only fields of the returned record that differ from the
\* input are n and errorBeta.
C9_OnlyCountsDiffer ==
  ErrorObserved =>
    /\ pstat.ewmaLatency = pstatIn.ewmaLatency
    /\ pstat.ewmaVariance = pstatIn.ewmaVariance
    /\ pstat.trend = pstatIn.trend
    /\ pstat.id = pstatIn.id
    /\ pstat.errorAlpha = pstatIn.errorAlpha
    /\ pstat.lastSeen = pstatIn.lastSeen

\* C9 as amended: an error observation never changes ewmaLatency, ewmaVariance
\* or trend; the only fields of the returned record that differ from the input
\* are n and errorBeta, each one more than before, and lastSeen, which is the
\* time of the call.
C9_ErrorLeavesAverages ==
  ErrorObserved =>
    /\ pstat.ewmaLatency = pstatIn.ewmaLatency
    /\ pstat.ewmaVariance = pstatIn.ewmaVariance
    /\ pstat.trend = pstatIn.trend
    /\ pstat.id = pstatIn.id
    /\ pstat.errorAlpha = pstatIn.errorAlpha
    /\ pstat.n = pstatIn.n + 1
    /\ pstat.errorBeta = pstatIn.errorBeta + 1
    /\ pstat.lastSeen = pstatObs.at

\* an error observation on a record whose trend is not 0, some time after the
\* record was last seen
C9_Witness ==
  /\ ErrorObserved
  /\ pstatIn.trend # RInt(0)
  /\ pstatIn.lastSeen < pstatObs.at
  /\ pstat.n = pstatIn.n + 1

\* C10: a latency L observed on a record with values (m, v, t) yields
\* ewmaLatency = m + 0.15 (L - m), ewmaVariance = 0.85 v + 0.15 (L - m)^2 and
\* trend = 0.85 t + 0.15 (L - m), with L - m taken against the latency before
\* the update; from (300, 1000, 0) and L = 100 the new ewmaLatency is 270.
C10_EwmaUpdate ==
  LatencyObserved =>
    LET m == pstatIn.ewmaLatency
        v == pstatIn.ewmaVariance
        t == pstatIn.trend
        d == RSub(RInt(pstatObs.latency), m)
    IN  /\ pstat.ewmaLatency = RAdd(m, RMul(Rat(15, 100), d))
        /\ pstat.ewmaVariance = RAdd(RMul(Rat(85, 100), v), RMul(Rat(15, 100), RMul(d, d)))
        /\ pstat.trend = RAdd(RMul(Rat(85, 100), t), RMul(Rat(15, 100), d))
        /\ (m = RInt(300) /\ v = RInt(1000) /\ t = RInt(0) /\ pstatObs.latency = 100)
             => pstat.ewmaLatency = RInt(270)

\* the latency 100 observed on the initial record (300, 1000, 0)
C10_Witness ==
  /\ LatencyObserved
  /\ pstatIn = createInitialStat(<<"e">>)
  /\ pstatObs.latency = 100
  /\ pstat.ewmaLatency = RInt(270)

\* |p|
RAbs(p) == <<Abs(p[1]), p[2]>>

====
